---- MODULE Spec2Model ----
(***************************************************************************)
(* Model of the RENEC production seed pipeline                             *)
(* (packages/db/prisma/seed-renec.ts): the loader, the resolver steps, the *)
(* two join passes and the sync ledger, run against a relational store;    *)
(* and of the coverage validator (validate-coverage.ts), which reads that  *)
(* store.                                                                  *)
(*                                                                         *)
(* Conventions                                                             *)
(*   - JS null / undefined is the empty tuple; a nullable value that is    *)
(*     present is wrapped in a one-element tuple where the value itself    *)
(*     could be an empty tuple (loaded files, the module-level cache).     *)
(*   - A canonical identity (a uuid) is the pair <<table, serial>>.        *)
(*   - Strings that the code converts (parseInt, trim) are sequences of    *)
(*     one-character strings; strings that are only compared are strings.  *)
(*   - A JS Map is a function; Map.get of an absent key is Null.           *)
(***************************************************************************)
EXTENDS Integers, Sequences, FiniteSets, TLC

Null == <<>>

Some(x) == <<x>>

Min(a, b) == IF a < b THEN a ELSE b

MapGet(m, k) == IF k \in DOMAIN m THEN m[k] ELSE Null

\* ───── bounds of the model ─────
\* runs started in a behaviour
MaxRuns == 2

\* times the extracts change in a behaviour
MaxChanges == 1

\* standard codes in a store handed to the validator
MaxCodes == 2

\* defective rows in a store handed to the validator
MaxDefects == 1

\* entity types handed to the classifier in a behaviour
MaxTypes == 1

\* requests for the reverse index in a process
MaxRequests == 2

\* ───── batch sizes of the source ─────
SectorBatchSize == 50
CommitteeBatchSize == 50
EcBatchSize == 100
OccBatchSize == 200
CertifierBatchSize == 50
CenterBatchSize == 50
AccreditationBatchSize == 200
OfferingBatchSize == 200

\* ───── character-level helpers ─────
Digits == <<"0", "1", "2", "3", "4", "5", "6", "7", "8", "9">>

IsDigit(c) == \E d \in 1..10 : Digits[d] = c

DigitVal(c) == (CHOOSE d \in 1..10 : Digits[d] = c) - 1

IsSpace(c) == c = " "

RECURSIVE TrimStart(_)
TrimStart(s) == IF s # <<>> /\ IsSpace(Head(s)) THEN TrimStart(Tail(s)) ELSE s

RECURSIVE TrimEnd(_)
TrimEnd(s) ==
  IF s # <<>> /\ IsSpace(s[Len(s)]) THEN TrimEnd(SubSeq(s, 1, Len(s) - 1)) ELSE s

\* String.prototype.trim
Trim(s) == TrimEnd(TrimStart(s))

RECURSIVE DigitPrefix(_, _, _)
\* longest prefix of decimal digits of s: [n |-> its value, any |-> one digit seen]
DigitPrefix(s, acc, any) ==
  IF s # <<>> /\ IsDigit(Head(s))
  THEN DigitPrefix(Tail(s), acc * 10 + DigitVal(Head(s)), TRUE)
  ELSE [n |-> acc, any |-> any]

\* parseInt(s, 10): leading blanks skipped, optional sign, digit prefix,
\* NaN when there is no digit.
ParseInt(s) ==
  LET t == TrimStart(s)
      neg == t # <<>> /\ Head(t) = "-"
      u == IF t # <<>> /\ Head(t) \in {"-", "+"} THEN Tail(t) ELSE t
      p == DigitPrefix(u, 0, FALSE)
  IN [isNaN |-> ~p.any, n |-> IF neg THEN 0 - p.n ELSE p.n]

\* the character at position i of a string
CharAt(s, i) == SubSeq(s, i, i)

LowerLetters == "abcdefghijklmnopqrstuvwxyz"

UpperLetters == "ABCDEFGHIJKLMNOPQRSTUVWXYZ"

\* one character of String.prototype.toUpperCase
UpperChar(c) ==
  IF \E i \in 1..26 : CharAt(LowerLetters, i) = c
  THEN CharAt(UpperLetters, CHOOSE i \in 1..26 : CharAt(LowerLetters, i) = c)
  ELSE c

RECURSIVE ToUpperCase(_)
\* String.prototype.toUpperCase
ToUpperCase(s) ==
  IF s = "" THEN ""
  ELSE UpperChar(CharAt(s, 1)) \o ToUpperCase(SubSeq(s, 2, Len(s)))

\* String.prototype.includes
Includes(s, k) ==
  \E i \in 1..(Len(s) - Len(k) + 1) : SubSeq(s, i, i + Len(k) - 1) = k

\* ───── batching ─────
\* number of iterations of  for (i = 0; i < n; i += size)
NumBatches(n, size) == (n + size - 1) \div size

\* a failing batch that leaves its first write behind
CommittedWithPartial(items, size, failAt) ==
  IF failAt = 0 THEN items
  ELSE SubSeq(items, 1, Min(Len(items), (failAt - 1) * size + 1))

\* The items of the batches that are committed when batch number failAt
\* throws (failAt = 0: no batch throws): batches run one after the other,
\* each one atomic, so what is committed is a prefix of whole batches.
Committed(items, size, failAt) ==
  IF failAt = 0 THEN items
  ELSE SubSeq(items, 1, Min(Len(items), (failAt - 1) * size))

\* ───── contentHash ─────
\* JSON.stringify(obj): the text is the object, its fields and their values
JsonStringify(obj) == <<"json", obj>>

\* createHash("sha256").update(text).digest("hex").slice(0, 16): the digest
\* is a function of the text, and two texts do not share a digest
Sha256Hex16(text) == <<"sha256/16", text>>

contentHash(obj) == Sha256Hex16(JsonStringify(obj))

\* ───── the store primitives (Prisma) ─────
\* an upsert that never finds the row: it creates one on every call
UpsertOneAlwaysCreate(rows, next, tbl, kf, key, data) ==
  LET new == data @@ (kf :> key) @@ ("id" :> <<tbl, next>>)
  IN [rows |-> rows \cup {new}, next |-> next + 1, row |-> new]

\* an upsert that refreshes a row by deleting it and inserting a new one
UpsertOneDeleteInsert(rows, next, tbl, kf, key, data) ==
  LET new == data @@ (kf :> key) @@ ("id" :> <<tbl, next>>)
  IN [rows |-> {r \in rows : r[kf] # key} \cup {new},
      next |-> next + 1, row |-> new]

\* an upsert whose update leaves a link alone when the new value is null
UpsertOneKeepsLinks(rows, next, tbl, kf, key, data) ==
  IF \E r \in rows : r[kf] = key
  THEN LET old == CHOOSE r \in rows : r[kf] = key
           new == [f \in DOMAIN data |->
                     IF f \in {"committeeId", "sectorId"} /\ data[f] = Null
                     THEN old[f] ELSE data[f]] @@ old
       IN [rows |-> (rows \ {old}) \cup {new}, next |-> next, row |-> new]
  ELSE LET new == data @@ (kf :> key) @@ ("id" :> <<tbl, next>>)
       IN [rows |-> rows \cup {new}, next |-> next + 1, row |-> new]

\* prisma.<table>.upsert({ where: {kf: key}, update: data, create: {kf: key, ...data} })
UpsertOne(rows, next, tbl, kf, key, data) ==
  IF \E r \in rows : r[kf] = key
  THEN LET old == CHOOSE r \in rows : r[kf] = key
           new == data @@ old
       IN [rows |-> (rows \ {old}) \cup {new}, next |-> next, row |-> new]
  ELSE LET new == data @@ (kf :> key) @@ ("id" :> <<tbl, next>>)
       IN [rows |-> rows \cup {new}, next |-> next + 1, row |-> new]

RECURSIVE UpsertAll(_, _, _, _, _)
\* prisma.$transaction([upsert, upsert, ...]): the upserts in order (the
\* first half of the items, then the second half on what the first half
\* left); items is a sequence of [key, data]; results are the rows returned.
UpsertAll(rows, next, tbl, kf, items) ==
  IF items = <<>> THEN [rows |-> rows, next |-> next, results |-> <<>>]
  ELSE IF Len(items) = 1
  THEN LET one == UpsertOne(rows, next, tbl, kf, items[1].key, items[1].data)
       IN [rows |-> one.rows, next |-> one.next, results |-> <<one.row>>]
  ELSE LET half == Len(items) \div 2
           first == UpsertAll(rows, next, tbl, kf, SubSeq(items, 1, half))
           second == UpsertAll(first.rows, first.next, tbl, kf,
                               SubSeq(items, half + 1, Len(items)))
       IN [results |-> first.results \o second.results,
           rows |-> second.rows, next |-> second.next]

\* createMany without skipDuplicates on a relation without unique index
CreateOneNoSkip(rows, next, tbl, uniq, d) ==
  [rows |-> rows \cup {d @@ ("id" :> <<tbl, next>>)},
   next |-> next + 1, count |-> 1]

\* a createMany that overwrites the row it collides with, as an upsert would
CreateOneRefreshesDuplicate(rows, next, tbl, uniq, d) ==
  IF \E r \in rows : \A f \in uniq : r[f] = d[f]
  THEN LET old == CHOOSE r \in rows : \A f \in uniq : r[f] = d[f]
       IN [rows |-> (rows \ {old}) \cup {d @@ old}, next |-> next, count |-> 0]
  ELSE [rows |-> rows \cup {d @@ ("id" :> <<tbl, next>>)},
        next |-> next + 1, count |-> 1]

\* one row of createMany({ skipDuplicates: true }): a row that collides
\* with the unique index uniq is left out and not counted
CreateOneSkipDuplicates(rows, next, tbl, uniq, d) ==
  IF \E r \in rows : \A f \in uniq : r[f] = d[f]
  THEN [rows |-> rows, next |-> next, count |-> 0]
  ELSE [rows |-> rows \cup {d @@ ("id" :> <<tbl, next>>)},
        next |-> next + 1, count |-> 1]

RECURSIVE CreateMany(_, _, _, _, _)
\* prisma.<table>.createMany({ data, skipDuplicates: true })
CreateMany(rows, next, tbl, uniq, data) ==
  IF data = <<>> THEN [rows |-> rows, next |-> next, count |-> 0]
  ELSE LET one == CreateOneSkipDuplicates(rows, next, tbl, uniq, Head(data))
           rest == CreateMany(one.rows, one.next, tbl, uniq, Tail(data))
       IN [rows |-> rest.rows, next |-> rest.next,
           count |-> one.count + rest.count]

\* new Map(results.map(r => [r[kf], r.id])), also the Map filled by
\* lookup.set(result[kf], result.id) over the results
LookupOf(results, kf) ==
  LET keys == {results[i][kf] : i \in DOMAIN results}
      last(k) == CHOOSE i \in DOMAIN results :
                   /\ results[i][kf] = k
                   /\ \A j \in DOMAIN results : results[j][kf] = k => j <= i
  IN [k \in keys |-> results[last(k)].id]

\* prisma.<table>.findMany({ select: { id, kf } }) turned into a Map
LookupOfTable(rows, kf) ==
  [k \in {r[kf] : r \in rows} |-> (CHOOSE r \in rows : r[kf] = k).id]

\* Map built by map.set(p[1], p[2]) over the pairs in order: the last
\* value set for a key stays
MapOfPairs(pairs) ==
  LET keys == {pairs[i][1] : i \in DOMAIN pairs}
      last(k) == CHOOSE i \in DOMAIN pairs :
                   /\ pairs[i][1] = k
                   /\ \A j \in DOMAIN pairs : pairs[j][1] = k => j <= i
  IN [k \in keys |-> pairs[last(k)][2]]

\* ───── Step 1: seedSectors ─────
RECURSIVE SectorMap(_, _)
\* the sectorMap of seedSectors in insertion order: one [key, data] per
\* parseable idSectorProductivo, the name being the first one seen
SectorMap(ecs, acc) ==
  IF ecs = <<>> THEN acc
  ELSE LET ec == Head(ecs)
           p == ParseInt(ec.idSectorProductivo)
           has == \E j \in DOMAIN acc : acc[j].key = p.n
           nombre == IF ec.secProductivo # "" THEN ec.secProductivo
                     ELSE "Sector " \o ToString(p.n)
       IN SectorMap(Tail(ecs),
                    IF ~p.isNaN /\ ~has
                    THEN Append(acc, [key |-> p.n,
                                      data |-> [nombre |-> nombre,
                                                tipo |-> "productivo",
                                                contentHash |->
                                                  contentHash([sectorId |-> p.n,
                                                               nombre |-> nombre])]])
                    ELSE acc)

\* a sector step that keeps the last name seen per key
SeedSectorsLastName(d, ecStandards, failAt) ==
  LET reversed == [i \in 1..Len(ecStandards) |-> ecStandards[Len(ecStandards) + 1 - i]]
      entries == SectorMap(reversed, <<>>)
      res == UpsertAll(d.sectors, d.seq.sector, "sector", "sectorId",
                       Committed(entries, SectorBatchSize, failAt))
  IN [db |-> [d EXCEPT !.sectors = res.rows, !.seq.sector = res.next],
      threw |-> failAt # 0,
      sectorLookup |-> LookupOf(res.results, "sectorId")]

SeedSectors(d, ecStandards, failAt) ==
  LET entries == SectorMap(ecStandards, <<>>)
      res == UpsertAll(d.sectors, d.seq.sector, "sector", "sectorId",
                       Committed(entries, SectorBatchSize, failAt))
  IN [db |-> [d EXCEPT !.sectors = res.rows, !.seq.sector = res.next],
      threw |-> failAt # 0,
      sectorLookup |-> LookupOf(res.results, "sectorId")]

\* ───── Step 2: seedCommittees ─────
\* a sector link taken from the key without looking it up
CommitteeSectorDbIdUnchecked(committee, sectorLookup) ==
  IF committee.idSectorProductivo # Null
  THEN <<"sector", committee.idSectorProductivo[1]>>
  ELSE Null

\* the sector link of a committee: sectorLookup.get(id) ?? null, null
\* when the committee carries no sector key
CommitteeSectorDbId(committee, sectorLookup) ==
  IF committee.idSectorProductivo # Null
  THEN MapGet(sectorLookup, committee.idSectorProductivo[1])
  ELSE Null

CommitteeItems(committees, sectorLookup) ==
  [i \in 1..Len(committees) |->
     [key |-> committees[i].clave,
      data |-> [nombre |-> committees[i].nombre,
                sectorId |-> CommitteeSectorDbId(committees[i], sectorLookup),
                contentHash |-> contentHash(committees[i])]]]

\* a committee step that resolves sector keys against the Sector table
SeedCommitteesStoreLookup(d, committees, sectorLookup, failAt) ==
  LET res == UpsertAll(d.committees, d.seq.committee, "committee", "committeeKey",
                       Committed(CommitteeItems(committees,
                                                LookupOfTable(d.sectors, "sectorId")),
                                 CommitteeBatchSize, failAt))
  IN [db |-> [d EXCEPT !.committees = res.rows, !.seq.committee = res.next],
      threw |-> failAt # 0,
      committeeLookup |-> LookupOf(res.results, "committeeKey")]

\* a committee step that returns before its upserts are collected
SeedCommitteesUnawaited(d, committees, sectorLookup, failAt) ==
  LET res == UpsertAll(d.committees, d.seq.committee, "committee", "committeeKey",
                       Committed(CommitteeItems(committees, sectorLookup),
                                 CommitteeBatchSize, failAt))
  IN [db |-> [d EXCEPT !.committees = res.rows, !.seq.committee = res.next],
      threw |-> failAt # 0,
      committeeLookup |-> <<>>]

SeedCommittees(d, committees, sectorLookup, failAt) ==
  LET res == UpsertAll(d.committees, d.seq.committee, "committee", "committeeKey",
                       Committed(CommitteeItems(committees, sectorLookup),
                                 CommitteeBatchSize, failAt))
  IN [db |-> [d EXCEPT !.committees = res.rows, !.seq.committee = res.next],
      threw |-> failAt # 0,
      committeeLookup |-> LookupOf(res.results, "committeeKey")]

\* ───── Step 3: seedECStandards ─────
RECURSIVE CommitteeCodePairs(_)
\* every <<codigo, clave>> of the committees' estandaresAsociados, in order
CommitteeCodePairs(committees) ==
  IF committees = <<>> THEN <<>>
  ELSE IF Len(committees) = 1
  THEN LET c == committees[1]
       IN [i \in 1..Len(c.estandaresAsociados) |->
             <<c.estandaresAsociados[i], c.clave>>]
  ELSE LET half == Len(committees) \div 2
       IN CommitteeCodePairs(SubSeq(committees, 1, half))
          \o CommitteeCodePairs(SubSeq(committees, half + 1, Len(committees)))

\* an index that is built again on every request
BuildEcToCommitteeKeyIndexRebuilt(cache, committees) ==
  Some(MapOfPairs(SelectSeq(CommitteeCodePairs(committees),
                            LAMBDA p : p[1] # "")))

\* buildEcToCommitteeKeyIndex: builds the module-level cache when it is
\* null, returns the cache
BuildEcToCommitteeKeyIndex(cache, committees) ==
  IF cache = Null
  THEN Some(MapOfPairs(SelectSeq(CommitteeCodePairs(committees),
                                 LAMBDA p : p[1] # "")))
  ELSE cache

\* an upsert that links a standard to a sector only when its committee
\* resolved
EcItemSectorThroughCommittee(ec, ecToCommitteeKey, sectorLookup, committeeLookup, now) ==
  LET hasCommitteeKey == /\ ec.codigo \in DOMAIN ecToCommitteeKey
                         /\ ecToCommitteeKey[ec.codigo] # ""
      committeeDbId == IF hasCommitteeKey
                       THEN MapGet(committeeLookup, ecToCommitteeKey[ec.codigo])
                       ELSE Null
      sectorIdInt == ParseInt(ec.idSectorProductivo)
      sectorDbId == IF ~sectorIdInt.isNaN /\ committeeDbId # Null
                    THEN MapGet(sectorLookup, sectorIdInt.n) ELSE Null
  IN [key |-> ec.codigo,
      data |-> [titulo |-> ec.titulo,
                vigente |-> TRUE,
                committeeId |-> committeeDbId,
                sectorId |-> sectorDbId,
                contentHash |-> contentHash(ec),
                lastSyncedAt |-> now]]

\* an upsert whose fingerprint is taken over the row it writes
EcItemHashOfData(ec, ecToCommitteeKey, sectorLookup, committeeLookup, now) ==
  LET hasCommitteeKey == /\ ec.codigo \in DOMAIN ecToCommitteeKey
                         /\ ecToCommitteeKey[ec.codigo] # ""
      committeeDbId == IF hasCommitteeKey
                       THEN MapGet(committeeLookup, ecToCommitteeKey[ec.codigo])
                       ELSE Null
      sectorIdInt == ParseInt(ec.idSectorProductivo)
      sectorDbId == IF ~sectorIdInt.isNaN
                    THEN MapGet(sectorLookup, sectorIdInt.n) ELSE Null
  IN [key |-> ec.codigo,
      data |-> [titulo |-> ec.titulo,
                vigente |-> TRUE,
                committeeId |-> committeeDbId,
                sectorId |-> sectorDbId,
                contentHash |-> contentHash([titulo |-> ec.titulo,
                                             committeeId |-> committeeDbId,
                                             sectorId |-> sectorDbId,
                                             lastSyncedAt |-> now]),
                lastSyncedAt |-> now]]

\* the upsert of one standard record (the body of batch.map); now is the
\* time new Date() gives
EcItem(ec, ecToCommitteeKey, sectorLookup, committeeLookup, now) ==
  LET \* committeeKey = ecToCommitteeKey.get(ecClave) ?? null is truthy
      hasCommitteeKey == /\ ec.codigo \in DOMAIN ecToCommitteeKey
                         /\ ecToCommitteeKey[ec.codigo] # ""
      committeeDbId == IF hasCommitteeKey
                       THEN MapGet(committeeLookup, ecToCommitteeKey[ec.codigo])
                       ELSE Null
      sectorIdInt == ParseInt(ec.idSectorProductivo)
      sectorDbId == IF ~sectorIdInt.isNaN
                    THEN MapGet(sectorLookup, sectorIdInt.n) ELSE Null
  IN [key |-> ec.codigo,
      data |-> [titulo |-> ec.titulo,
                vigente |-> TRUE,
                committeeId |-> committeeDbId,
                sectorId |-> sectorDbId,
                contentHash |-> contentHash(ec),
                lastSyncedAt |-> now]]

\* a batch in which the record without codigo is upserted like the others
EcItemsKeylessUpserted(ecs, ecToCommitteeKey, sectorLookup, committeeLookup, now) ==
  [i \in 1..Len(ecs) |->
     EcItem(ecs[i], ecToCommitteeKey, sectorLookup, committeeLookup, now)]

\* the records of a batch that are upserted: a record without codigo is
\* the no-op query
EcItems(ecs, ecToCommitteeKey, sectorLookup, committeeLookup, now) ==
  LET keyed == SelectSeq(ecs, LAMBDA ec : ec.codigo # "")
  IN [i \in 1..Len(keyed) |->
        EcItem(keyed[i], ecToCommitteeKey, sectorLookup, committeeLookup, now)]

\* the occupation rows of an entry when the labels are pushed as they come
OccupationPairsOfUntrimmed(entry, ecDbIds) ==
  LET ecDbId == MapGet(ecDbIds, entry.ecClave)
      kept == SelectSeq(entry.occupations, LAMBDA o : o # <<>>)
  IN IF ecDbId = Null THEN <<>>
     ELSE [i \in 1..Len(kept) |-> [ecId |-> ecDbId, occupation |-> kept[i]]]

\* the occupation rows of one ec_details entry
OccupationPairsOf(entry, ecDbIds) ==
  LET ecDbId == MapGet(ecDbIds, entry.ecClave)
      kept == SelectSeq(entry.occupations,
                        LAMBDA o : o # <<>> /\ Len(Trim(o)) > 0)
  IN IF ecDbId = Null THEN <<>>
     ELSE [i \in 1..Len(kept) |-> [ecId |-> ecDbId, occupation |-> Trim(kept[i])]]

RECURSIVE OccupationPairs(_, _)
OccupationPairs(entries, ecDbIds) ==
  IF entries = <<>> THEN <<>>
  ELSE OccupationPairsOf(Head(entries), ecDbIds)
       \o OccupationPairs(Tail(entries), ecDbIds)

SeedECStandards(d, ecStandards, committees, ecDetailsLookup, sectorLookup, committeeLookup, cache, now, failStd, failOcc) ==
  LET cache1 == BuildEcToCommitteeKeyIndex(cache, committees)
      done == Committed(ecStandards, EcBatchSize, failStd)
      res == UpsertAll(d.ecs, d.seq.ec, "ec", "ecClave",
                       EcItems(done, cache1[1], sectorLookup, committeeLookup, now))
      ecDbIds == LookupOf(res.results, "ecClave")
      d1 == [d EXCEPT !.ecs = res.rows, !.seq.ec = res.next]
      pairs == IF failStd = 0 /\ ecDetailsLookup # Null
               THEN OccupationPairs(ecDetailsLookup[1], ecDbIds) ELSE <<>>
      occ == CreateMany(d1.occupations, d1.seq.occupation, "occupation",
                        {"ecId", "occupation"},
                        Committed(pairs, OccBatchSize, failOcc))
      d2 == [d1 EXCEPT !.occupations = occ.rows, !.seq.occupation = occ.next]
  IN [db |-> d2,
      threw |-> failStd # 0 \/ failOcc # 0,
      cache |-> cache1,
      created |-> Len(done)]

\* number of occupation batches of a standard pass whose upserts all commit
OccupationBatches(d, ecStandards, committees, ecDetailsLookup, sectorLookup, committeeLookup, cache, now) ==
  LET cache1 == BuildEcToCommitteeKeyIndex(cache, committees)
      res == UpsertAll(d.ecs, d.seq.ec, "ec", "ecClave",
                       EcItems(ecStandards, cache1[1], sectorLookup, committeeLookup, now))
      pairs == IF ecDetailsLookup # Null
               THEN OccupationPairs(ecDetailsLookup[1], LookupOf(res.results, "ecClave"))
               ELSE <<>>
  IN NumBatches(Len(pairs), OccBatchSize)

\* ───── Step 4 and 5: seedCertifiers, seedCenters ─────
\* a classification that compares the type as it is written
ResolveCertifierTipoCaseSensitive(entityType) ==
  LET raw == IF entityType = Null THEN "" ELSE entityType[1]
  IN IF Includes(raw, "OC") \/ Includes(raw, "GOBIERNO") THEN "OC" ELSE "ECE"

\* resolveCertifierTipo: entityType is Null when the record has no type
ResolveCertifierTipo(entityType) ==
  LET upper == ToUpperCase(IF entityType = Null THEN "" ELSE entityType[1])
  IN IF Includes(upper, "OC") \/ Includes(upper, "GOBIERNO") THEN "OC" ELSE "ECE"

CertifierItems(registry) ==
  [i \in 1..Len(registry) |->
     [key |-> registry[i].id,
      data |-> [razonSocial |-> registry[i].canonical_name,
                activo |-> TRUE,
                tipo |-> ResolveCertifierTipo(registry[i].entity_type),
                contentHash |-> contentHash(registry[i])]]]

SeedCertifiers(d, registry, failAt) ==
  LET done == Committed(registry, CertifierBatchSize, failAt)
      res == UpsertAll(d.certifiers, d.seq.certifier, "certifier", "certId",
                       CertifierItems(done))
  IN [db |-> [d EXCEPT !.certifiers = res.rows, !.seq.certifier = res.next],
      threw |-> failAt # 0,
      processed |-> Len(done)]

CenterItems(registry) ==
  [i \in 1..Len(registry) |->
     [key |-> registry[i].id,
      data |-> [nombre |-> registry[i].canonical_name,
                activo |-> TRUE,
                contentHash |-> contentHash(registry[i])]]]

SeedCenters(d, registry, failAt) ==
  LET done == Committed(registry, CenterBatchSize, failAt)
      res == UpsertAll(d.centers, d.seq.center, "center", "centerId",
                       CenterItems(done))
  IN [db |-> [d EXCEPT !.centers = res.rows, !.seq.center = res.next],
      threw |-> failAt # 0,
      processed |-> Len(done)]

\* ───── Step 6: seedAccreditations ─────
\* the pairs of one matrix entry when an unresolved certifier is pushed too
AccreditationPairsOfUnfiltered(entry, ecLookup, certLookup) ==
  LET ecId == MapGet(ecLookup, entry.ecClave)
  IN IF ecId = Null THEN <<>>
     ELSE [i \in 1..Len(entry.ece_ids) |->
             [certifierId |-> MapGet(certLookup, entry.ece_ids[i]),
              ecId |-> ecId,
              vigente |-> TRUE]]

\* the pairs pushed for one matrix entry: none when the standard is not in
\* the store, else one per certifier id found in the store
AccreditationPairsOf(entry, ecLookup, certLookup) ==
  LET ecId == MapGet(ecLookup, entry.ecClave)
      known == SelectSeq(entry.ece_ids, LAMBDA e : MapGet(certLookup, e) # Null)
  IN IF ecId = Null THEN <<>>
     ELSE [i \in 1..Len(known) |->
             [certifierId |-> MapGet(certLookup, known[i]),
              ecId |-> ecId,
              vigente |-> TRUE]]

\* what skipped++ adds for one matrix entry
AccreditationLoopSkipped(entry, ecLookup, certLookup) ==
  IF MapGet(ecLookup, entry.ecClave) = Null THEN 0
  ELSE Len(SelectSeq(entry.ece_ids, LAMBDA e : MapGet(certLookup, e) = Null))

RECURSIVE AccreditationPairs(_, _, _)
AccreditationPairs(matrix, ecLookup, certLookup) ==
  IF matrix = <<>> THEN <<>>
  ELSE AccreditationPairsOf(Head(matrix), ecLookup, certLookup)
       \o AccreditationPairs(Tail(matrix), ecLookup, certLookup)

RECURSIVE AccreditationLoopSkippedAll(_, _, _)
AccreditationLoopSkippedAll(matrix, ecLookup, certLookup) ==
  IF matrix = <<>> THEN 0
  ELSE AccreditationLoopSkipped(Head(matrix), ecLookup, certLookup)
       + AccreditationLoopSkippedAll(Tail(matrix), ecLookup, certLookup)

\* the value of skipped that seedAccreditations returns:
\*   skipped = pairs.length - created
AccreditationSkipped(loopSkipped, nPairs, created) == nPairs - created

\* a pass that reports every pair it sent as created
SeedAccreditationsCountsSent(d, matrix, failAt) ==
  LET ecLookup == LookupOfTable(d.ecs, "ecClave")
      certLookup == LookupOfTable(d.certifiers, "certId")
      pairs == AccreditationPairs(matrix, ecLookup, certLookup)
      loopSkipped == AccreditationLoopSkippedAll(matrix, ecLookup, certLookup)
      sent == Committed(pairs, AccreditationBatchSize, failAt)
      res == CreateMany(d.accreditations, d.seq.accreditation, "accreditation",
                        {"certifierId", "ecId"}, sent)
  IN [db |-> [d EXCEPT !.accreditations = res.rows,
                       !.seq.accreditation = res.next],
      threw |-> failAt # 0,
      created |-> Len(sent),
      skipped |-> AccreditationSkipped(loopSkipped, Len(pairs), Len(sent))]

SeedAccreditations(d, matrix, failAt) ==
  LET ecLookup == LookupOfTable(d.ecs, "ecClave")
      certLookup == LookupOfTable(d.certifiers, "certId")
      pairs == AccreditationPairs(matrix, ecLookup, certLookup)
      loopSkipped == AccreditationLoopSkippedAll(matrix, ecLookup, certLookup)
      res == CreateMany(d.accreditations, d.seq.accreditation, "accreditation",
                        {"certifierId", "ecId"},
                        Committed(pairs, AccreditationBatchSize, failAt))
  IN [db |-> [d EXCEPT !.accreditations = res.rows,
                       !.seq.accreditation = res.next],
      threw |-> failAt # 0,
      created |-> res.count,
      skipped |-> AccreditationSkipped(loopSkipped, Len(pairs), res.count)]

AccreditationBatches(d, matrix) ==
  NumBatches(Len(AccreditationPairs(matrix, LookupOfTable(d.ecs, "ecClave"),
                                    LookupOfTable(d.certifiers, "certId"))),
             AccreditationBatchSize)

\* ───── Step 7: seedCenterOfferings ─────
OfferingPairsOf(center, ecLookup, centerLookup) ==
  LET centerDbId == MapGet(centerLookup, center.id)
      known == SelectSeq(center.ec_codes, LAMBDA c : MapGet(ecLookup, c) # Null)
  IN IF centerDbId = Null THEN <<>>
     ELSE [i \in 1..Len(known) |->
             [centerId |-> centerDbId,
              ecId |-> MapGet(ecLookup, known[i]),
              activo |-> TRUE]]

OfferingLoopSkipped(center, ecLookup, centerLookup) ==
  IF MapGet(centerLookup, center.id) = Null THEN 0
  ELSE Len(SelectSeq(center.ec_codes, LAMBDA c : MapGet(ecLookup, c) = Null))

RECURSIVE OfferingPairs(_, _, _)
OfferingPairs(registry, ecLookup, centerLookup) ==
  IF registry = <<>> THEN <<>>
  ELSE OfferingPairsOf(Head(registry), ecLookup, centerLookup)
       \o OfferingPairs(Tail(registry), ecLookup, centerLookup)

RECURSIVE OfferingLoopSkippedAll(_, _, _)
OfferingLoopSkippedAll(registry, ecLookup, centerLookup) ==
  IF registry = <<>> THEN 0
  ELSE OfferingLoopSkipped(Head(registry), ecLookup, centerLookup)
       + OfferingLoopSkippedAll(Tail(registry), ecLookup, centerLookup)

\* a count that drops the pairs skipped in the loop
OfferingSkippedOverwritten(loopSkipped, nPairs, created) == nPairs - created

\* the value of skipped that seedCenterOfferings returns:
\*   skipped = pairs.length - created + skipped
OfferingSkipped(loopSkipped, nPairs, created) == nPairs - created + loopSkipped

SeedCenterOfferings(d, registry, failAt) ==
  LET ecLookup == LookupOfTable(d.ecs, "ecClave")
      centerLookup == LookupOfTable(d.centers, "centerId")
      pairs == OfferingPairs(registry, ecLookup, centerLookup)
      loopSkipped == OfferingLoopSkippedAll(registry, ecLookup, centerLookup)
      res == CreateMany(d.offerings, d.seq.offering, "offering",
                        {"centerId", "ecId"},
                        Committed(pairs, OfferingBatchSize, failAt))
  IN [db |-> [d EXCEPT !.offerings = res.rows, !.seq.offering = res.next],
      threw |-> failAt # 0,
      created |-> res.count,
      skipped |-> OfferingSkipped(loopSkipped, Len(pairs), res.count)]

OfferingBatches(d, registry) ==
  NumBatches(Len(OfferingPairs(registry, LookupOfTable(d.ecs, "ecClave"),
                               LookupOfTable(d.centers, "centerId"))),
             OfferingBatchSize)

\* ───── Sync ledger: createSyncJobRecord ─────
RECURSIVE SumOver(_, _)
SumOver(f, keys) ==
  IF keys = {} THEN 0
  ELSE LET k == CHOOSE x \in keys : TRUE IN f[k] + SumOver(f, keys \ {k})

\* a total that leaves the sector step out
TotalProcessedNoSectors(st) == SumOver(st, DOMAIN st \ {"sectors"})

\* Object.values(stats).reduce((a, b) => a + b, 0)
TotalProcessed(st) == SumOver(st, DOMAIN st)

\* a ledger row that books every upsert as an update
SyncJobDataAsUpdates(st) ==
  [jobType |-> "FULL_SYNC",
   status |-> "COMPLETED",
   itemsProcessed |-> TotalProcessed(st),
   itemsCreated |-> 0,
   itemsUpdated |-> TotalProcessed(st),
   itemsSkipped |-> 0,
   errors |-> <<>>]

SyncJobData(st) ==
  [jobType |-> "FULL_SYNC",
   status |-> "COMPLETED",
   itemsProcessed |-> TotalProcessed(st),
   itemsCreated |-> TotalProcessed(st),
   itemsUpdated |-> 0,
   itemsSkipped |-> 0,
   errors |-> <<>>]

CreateSyncJobRecord(d, st) ==
  [d EXCEPT !.syncJobs = @ \cup {SyncJobData(st) @@ ("id" :> <<"syncJob", d.seq.syncJob>>)},
            !.seq.syncJob = @ + 1]

\* ───── Source Extract Loader: loadJsonFile ─────
\* a loader without the try/catch around the parse, handing over
\* whatever the parser left
LoadJsonFileNoCatch(f) ==
  IF ~f.exists THEN Null ELSE Some(f.content)

\* a file on disk: absent, present but not JSON, or present with a content
LoadJsonFile(f) ==
  IF ~f.exists THEN Null
  ELSE IF ~f.parses THEN Null
  ELSE Some(f.content)

\* ───── the extracts the runs are fed with ─────
OnDisk(c) == [exists |-> TRUE, parses |-> TRUE, content |-> c]

Unparsable(c) == [exists |-> TRUE, parses |-> FALSE, content |-> c]

Absent(c) == [exists |-> FALSE, parses |-> FALSE, content |-> c]

EcTurismo ==
  [codigo |-> "EC0249", idSectorProductivo |-> <<"5">>,
   secProductivo |-> "Turismo", titulo |-> "Consultoria"]

\* the same code again, with a sector key that parses to 7 and no name
EcTurismoAgain ==
  [codigo |-> "EC0249", idSectorProductivo |-> <<" ", "7", "a">>,
   secProductivo |-> "", titulo |-> "Consultoria general"]

\* a sector key that does not parse
EcSinSector ==
  [codigo |-> "EC0001", idSectorProductivo |-> <<"x">>,
   secProductivo |-> "Otro", titulo |-> "Limpieza"]

\* a record without natural key
EcSinClave ==
  [codigo |-> "", idSectorProductivo |-> <<"7">>,
   secProductivo |-> "Comercio", titulo |-> "Sin clave"]

StandardFiles ==
  { Absent(<<>>), Unparsable(<<>>), OnDisk(<<>>),
    OnDisk(<<EcTurismo>>),
    OnDisk(<<EcTurismoAgain, EcSinClave>>),
    OnDisk(<<EcSinClave, EcTurismo, EcSinSector, EcTurismoAgain>>) }

ComiteTurismo ==
  [clave |-> "CGC-1", nombre |-> "Comite de Turismo",
   idSectorProductivo |-> Some(5), estandaresAsociados |-> <<"EC0249">>]

\* another committee of sector 5, listing an empty code and a code that
\* the first committee lists too
ComiteOtro ==
  [clave |-> "CGC-2", nombre |-> "Otro comite",
   idSectorProductivo |-> Some(5),
   estandaresAsociados |-> <<"", "EC0249", "EC0001">>]

\* the key of the first committee again, without sector key
ComiteSinSector ==
  [clave |-> "CGC-1", nombre |-> "Comite de Turismo (bis)",
   idSectorProductivo |-> Null, estandaresAsociados |-> <<>>]

\* an extract of two batches: the first one full, of one committee listed
\* over and over, and another committee in the second one
ComitesDosLotes ==
  [i \in 1..(CommitteeBatchSize + 1) |->
     IF i <= CommitteeBatchSize THEN ComiteTurismo ELSE ComiteOtro]

CommitteeFiles ==
  { Absent(<<>>), OnDisk(<<>>),
    OnDisk(<<ComiteTurismo>>),
    OnDisk(<<ComiteTurismo, ComiteOtro, ComiteSinSector>>) }

Certifier(id, entityType) ==
  [id |-> id, canonical_name |-> "Certificador " \o id, entity_type |-> entityType]

CertifierFiles ==
  { Absent([registry |-> <<>>]), OnDisk([registry |-> <<>>]),
    OnDisk([registry |-> <<Certifier("ECE-1", Some("ECE")),
                           Certifier("ECE-2", Some("Gobierno Estatal")),
                           Certifier("ECE-1", Null)>>]) }

Center(id, codes) ==
  [id |-> id, canonical_name |-> "Centro " \o id, ec_codes |-> codes]

CenterFiles ==
  { Unparsable([registry |-> <<>>]), OnDisk([registry |-> <<>>]),
    OnDisk([registry |-> <<Center("CCAP-1", <<"EC0249", "EC9999", "EC0249", "EC0001">>)>>]) }

\* EC9999 is in no standard list and ECE-3 in no certifier registry
MatrixFiles ==
  { Absent([matrix |-> <<>>]), OnDisk([matrix |-> <<>>]),
    OnDisk([matrix |->
      <<[ecClave |-> "EC9999", ece_ids |-> <<"ECE-1">>],
        [ecClave |-> "EC0249", ece_ids |-> <<"ECE-1", "ECE-3", "ECE-1", "ECE-2">>]>>]) }

OccGuia == <<"g">>

OccGuiaBlancos == <<" ", "g", " ">>

OccBlanco == <<" ">>

OccChef == <<"c">>

DetailsA ==
  <<[ecClave |-> "EC0249", occupations |-> <<OccGuia, OccBlanco, OccGuiaBlancos>>]>>

\* A and more: another label for EC0249, and two more standards
DetailsAB ==
  <<[ecClave |-> "EC0249", occupations |-> <<OccGuia, <<>>, OccChef>>],
    [ecClave |-> "EC0001", occupations |-> <<OccChef>>],
    [ecClave |-> "EC9999", occupations |-> <<OccGuia>>]>>

DetailFiles ==
  { Absent([ec_details |-> <<>>]),
    OnDisk([ec_details |-> DetailsA]),
    OnDisk([ec_details |-> DetailsAB]) }

\* what each file of the directory can be
FileOptions ==
  [dir |-> BOOLEAN, std |-> StandardFiles, matrix |-> MatrixFiles,
   certs |-> CertifierFiles, centers |-> CenterFiles,
   committees |-> CommitteeFiles, details |-> DetailFiles]

\* every extract present, with duplicate keys, records without key and
\* references that do not resolve
RichFiles ==
  [dir |-> TRUE,
   std |-> OnDisk(<<EcSinClave, EcTurismo, EcSinSector, EcTurismoAgain>>),
   matrix |-> OnDisk([matrix |->
      <<[ecClave |-> "EC9999", ece_ids |-> <<"ECE-1">>],
        [ecClave |-> "EC0249", ece_ids |-> <<"ECE-1", "ECE-3", "ECE-1", "ECE-2">>]>>]),
   certs |-> OnDisk([registry |-> <<Certifier("ECE-1", Some("ECE")),
                                    Certifier("ECE-2", Some("Gobierno Estatal")),
                                    Certifier("ECE-1", Null)>>]),
   centers |-> OnDisk([registry |->
                 <<Center("CCAP-1", <<"EC0249", "EC9999", "EC0249", "EC0001">>)>>]),
   committees |-> OnDisk(<<ComiteTurismo, ComiteOtro, ComiteSinSector>>),
   details |-> OnDisk([ec_details |-> DetailsAB])]

\* one standard, empty matrix and registries, nothing else
SparseFiles ==
  [dir |-> TRUE,
   std |-> OnDisk(<<EcTurismo>>),
   matrix |-> OnDisk([matrix |-> <<>>]),
   certs |-> OnDisk([registry |-> <<>>]),
   centers |-> OnDisk([registry |-> <<>>]),
   committees |-> Absent(<<>>),
   details |-> Absent([ec_details |-> <<>>])]

\* the directories that differ from f in at most one file
OneFileReplaced(f) ==
  UNION {{[f EXCEPT ![k] = v] : v \in FileOptions[k]} : k \in DOMAIN f}

\* the directories the runs are fed with: the rich and the sparse one, and
\* each of them with one file replaced
FileSets == OneFileReplaced(RichFiles) \cup OneFileReplaced(SparseFiles)

\* the rich directory with a committee extract of more than one batch
LongFiles == [RichFiles EXCEPT !.committees = OnDisk(ComitesDosLotes)]

\* ───── Coverage validator: validate-coverage.ts ─────
\* the tables in the order of the counts object, their check names and
\* their expected baselines
CountOrder ==
  <<"ecs", "certifiers", "centers", "accreditations", "offerings",
    "sectors", "committees", "occupations", "syncJobs">>

ModelName ==
  [ecs |-> "RenecEC", certifiers |-> "RenecCertifier", centers |-> "RenecCenter",
   accreditations |-> "RenecAccreditation", offerings |-> "RenecCenterOffering",
   sectors |-> "RenecSector", committees |-> "RenecCommittee",
   occupations |-> "RenecECOccupation", syncJobs |-> "RenecSyncJob"]

ExpectedCount ==
  [ecs |-> 1477, certifiers |-> 482, centers |-> 340, accreditations |-> 7573,
   offerings |-> 680, sectors |-> 22, committees |-> 90, occupations |-> 2000,
   syncJobs |-> 1]

\* a count check that fails a table below its threshold
CountStatusNoWarn(actual, expected) ==
  IF actual * 10 >= expected * 9 THEN "PASS" ELSE "FAIL"

\* actual >= expected * 0.9 ? "PASS" : actual > 0 ? "WARN" : "FAIL"
\* (for the nine baselines the double expected * 0.9 is the nearest double
\* of 9 * expected / 10, so the comparison with an integer count is exact)
CountStatus(actual, expected) ==
  IF actual * 10 >= expected * 9 THEN "PASS"
  ELSE IF actual > 0 THEN "WARN"
  ELSE "FAIL"

\* prisma.<table>.count(): the rows the model lists one by one and the
\* further rows of the table
CountOf(d, b, t) == Cardinality(d[t]) + b[t]

CountResult(d, b, t) ==
  [check |-> ModelName[t] \o " count",
   status |-> CountStatus(CountOf(d, b, t), ExpectedCount[t]),
   detail |-> CountOf(d, b, t)]

CountResults(d, b) == [i \in DOMAIN CountOrder |-> CountResult(d, b, CountOrder[i])]

\* \d{n} at position i
DigitsAt(s, i, n) ==
  /\ Len(s) >= i + n - 1
  /\ \A k \in i..(i + n - 1) : IsDigit(CharAt(s, k))

\* a test for any two upper-case letters followed by the digits
TwoLettersRegexTest(s) ==
  /\ Len(s) \in {6, 9}
  /\ \A k \in 1..2 :
       CharAt(s, k) \in {"A", "B", "C", "D", "E", "F", "G", "H", "I", "J", "K",
                         "L", "M", "N", "O", "P", "Q", "R", "S", "T", "U", "V",
                         "W", "X", "Y", "Z"}
  /\ DigitsAt(s, 3, 4)
  /\ Len(s) = 9 => (CharAt(s, 7) = "." /\ DigitsAt(s, 8, 2))

\* /^EC\d{4}(\.\d{2})?$/.test(s)
EcCodeRegexTest(s) ==
  /\ Len(s) \in {6, 9}
  /\ SubSeq(s, 1, 2) = "EC"
  /\ DigitsAt(s, 3, 4)
  /\ Len(s) = 9 => (CharAt(s, 7) = "." /\ DigitsAt(s, 8, 2))

\* allECs.filter(ec => !ecCodeRegex.test(ec.ecClave)), as the set of codes
InvalidCodes(d) == {e.ecClave : e \in {r \in d.ecs : ~EcCodeRegexTest(r.ecClave)}}

\* invalidCodes.slice(0, 10)
DisplayCap == 10

\* a format check that fails the run on a non-conforming code
FormatResultFailing(d) ==
  IF InvalidCodes(d) = {}
  THEN [check |-> "EC code format", status |-> "PASS", detail |-> 0]
  ELSE [check |-> "EC code format", status |-> "FAIL",
        detail |-> Cardinality(InvalidCodes(d))]

FormatResult(d) ==
  IF InvalidCodes(d) = {}
  THEN [check |-> "EC code format", status |-> "PASS", detail |-> 0]
  ELSE [check |-> "EC code format", status |-> "WARN",
        detail |-> Cardinality(InvalidCodes(d))]

\* the six orphan counts (the raw SQL queries)
OrphanedAccreditations(d) ==
  Cardinality({a \in d.accreditations :
                 \/ ~\E e \in d.ecs : e.id = a.ecId
                 \/ ~\E c \in d.certifiers : c.id = a.certifierId})

OrphanedOfferings(d) ==
  Cardinality({o \in d.offerings :
                 \/ ~\E e \in d.ecs : e.id = o.ecId
                 \/ ~\E c \in d.centers : c.id = o.centerId})

OrphanedEcCommittee(d) ==
  Cardinality({e \in d.ecs :
                 /\ e.committeeId # Null
                 /\ ~\E c \in d.committees : c.id = e.committeeId})

OrphanedEcSector(d) ==
  Cardinality({e \in d.ecs :
                 /\ e.sectorId # Null
                 /\ ~\E x \in d.sectors : x.id = e.sectorId})

OrphanedCommSector(d) ==
  Cardinality({c \in d.committees :
                 /\ c.sectorId # Null
                 /\ ~\E x \in d.sectors : x.id = c.sectorId})

OrphanedOccupations(d) ==
  Cardinality({o \in d.occupations : ~\E e \in d.ecs : e.id = o.ecId})

\* an integrity check that only warns
IntegrityResultWarning(name, orphans) ==
  [check |-> name \o " referential integrity",
   status |-> IF orphans = 0 THEN "PASS" ELSE "WARN",
   detail |-> orphans]

\* status: count === 0 ? "PASS" : "FAIL"
IntegrityResult(name, orphans) ==
  [check |-> name \o " referential integrity",
   status |-> IF orphans = 0 THEN "PASS" ELSE "FAIL",
   detail |-> orphans]

IntegrityResults(d) ==
  <<IntegrityResult("Accreditation", OrphanedAccreditations(d)),
    IntegrityResult("Center offering", OrphanedOfferings(d)),
    IntegrityResult("EC->Committee", OrphanedEcCommittee(d)),
    IntegrityResult("EC->Sector", OrphanedEcSector(d)),
    IntegrityResult("Committee->Sector", OrphanedCommSector(d)),
    IntegrityResult("ECOccupation->EC", OrphanedOccupations(d))>>

\* the figures of section 2 that the store of the model carries
EcCompleteness(d) ==
  [ecsVigente |-> Cardinality({e \in d.ecs : e.vigente}),
   ecsWithCommitteeId |-> Cardinality({e \in d.ecs : e.committeeId # Null}),
   ecsWithSectorId |-> Cardinality({e \in d.ecs : e.sectorId # Null})]

\* the figures of section 4 that the store of the model carries
FieldCoverage(d) ==
  [commWithSectorId |-> Cardinality({c \in d.committees : c.sectorId # Null}),
   sectorWithTipo |-> Cardinality({x \in d.sectors : x.tipo # "productivo"}),
   ecsWithOcc |-> Cardinality({o.ecId : o \in d.occupations})]

\* the figures of section 6
AccreditationCoverage(d) ==
  [ecsWithAcc |-> Cardinality({a.ecId : a \in d.accreditations}),
   certsWithAcc |-> Cardinality({a.certifierId : a \in d.accreditations})]

\* results.filter(r => r.status === "FAIL").length
Failed(res) == Len(SelectSeq(res, LAMBDA r : r.status = "FAIL"))

\* an exit status that ignores the tally
ExitStatusAlwaysZero(res) == 0

\* if (failed > 0) process.exit(1)
ExitStatus(res) == IF Failed(res) > 0 THEN 1 ELSE 0

\* ───── state ─────
VARIABLES
  files,            \* the extracted-data directory
  db,               \* the relational store
  pc,               \* where main is; "done" once the process has exited,
                    \* "idle" before the first run and after the extracts change
  mem,              \* the six values returned by loadJsonFile
  sectorLookup,     \* returned by seedSectors
  committeeLookup,  \* returned by seedCommittees
  cache,            \* _ecToCommitteeKeyCache
  stats,            \* the stats object of main
  accResult,        \* returned by seedAccreditations
  offerResult,      \* returned by seedCenterOfferings
  exitCode,         \* exit status of the process, read when pc = "done"
  threw,            \* the step of this run that threw, "" when none did
  runs,             \* number of runs started
  changes,          \* number of times the extracts changed
  db0,              \* the store when this run started
  prevOK,           \* the run before this one ended with status 0 and
                    \* loaded the same contents
  prevStd,          \* the standard extract the run before this one has
                    \* upserted, null when its standard step did not return
  prevCounts,       \* when prevOK: the total, the accreditation count and
                    \* the offering count of the stats the run before ended with
  bulk,             \* per table, the number of further rows of the store
                    \* that are not listed one by one: rows with a
                    \* conforming code, null optional links and references
                    \* that exist
  vpc,              \* where the validator is; "off" when it is not run
  results,          \* the results array of the validator
  listed,           \* the non-conforming codes the validator printed
  figures,          \* the descriptive figures the validator printed
  vExit,            \* exit status of the validator, read when vpc = "done"
  vThrew,           \* a query of the validator threw
  entityTypes,      \* the raw entity types still to be classified
  tipos,            \* the classifications returned, with their input
  requests,         \* the committee lists the reverse index is still to
                    \* be requested with
  returned          \* the indexes returned, with the list of the request

vars == <<files, db, pc, mem, sectorLookup, committeeLookup, cache, stats,
          accResult, offerResult, exitCode, threw, runs, changes, db0,
          prevOK, prevStd, prevCounts, bulk, vpc, results, listed, figures, vExit, vThrew,
          entityTypes, tipos, requests, returned>>

\* what the validator leaves alone besides the store, and what the seed
\* leaves alone
seedVars == <<files, pc, mem, sectorLookup, committeeLookup, cache, stats,
              accResult, offerResult, exitCode, threw, runs, changes, db0,
              prevOK,
                 prevStd, prevCounts>>

validatorVars == <<bulk, vpc, results, listed, figures, vExit, vThrew>>

\* what the seed and the validator leave alone: the helpers called on their own
helperVars == <<entityTypes, tipos, requests, returned>>

Tables ==
  {"sectors", "committees", "ecs", "certifiers", "centers",
   "accreditations", "offerings", "occupations", "syncJobs"}

EmptyDb ==
  [sectors |-> {}, committees |-> {}, ecs |-> {}, certifiers |-> {},
   centers |-> {}, accreditations |-> {}, offerings |-> {},
   occupations |-> {}, syncJobs |-> {},
   seq |-> [sector |-> 1, committee |-> 1, ec |-> 1, certifier |-> 1,
            center |-> 1, accreditation |-> 1, offering |-> 1,
            occupation |-> 1, syncJob |-> 1]]

NoBulk == [t \in Tables |-> 0]

\* the validator is not running
ValidatorOff ==
  /\ bulk = NoBulk
  /\ vpc = "off"
  /\ results = <<>>
  /\ listed = {}
  /\ figures = <<>>
  /\ vExit = 0
  /\ vThrew = FALSE

\* no helper is called on its own
HelpersOff ==
  /\ entityTypes = <<>>
  /\ tipos = <<>>
  /\ requests = <<>>
  /\ returned = <<>>

NoCounts == [total |-> 0, accreditations |-> 0, centerOfferings |-> 0]

\* the count a stats object holds for a step, 0 when the step was skipped
StatOf(st, step) == IF step \in DOMAIN st THEN st[step] ELSE 0

NothingLoaded ==
  [std |-> Null, matrix |-> Null, certs |-> Null, centers |-> Null,
   committees |-> Null, details |-> Null]

Init ==
  /\ files \in FileSets
  /\ db = EmptyDb
  /\ pc = "idle"
  /\ mem = NothingLoaded
  /\ sectorLookup = <<>>
  /\ committeeLookup = <<>>
  /\ cache = Null
  /\ stats = <<>>
  /\ accResult = Null
  /\ offerResult = Null
  /\ exitCode = 0
  /\ threw = ""
  /\ runs = 0
  /\ changes = 0
  /\ db0 = EmptyDb
  /\ prevOK = FALSE
  /\ prevStd = Null
  /\ prevCounts = NoCounts
  /\ ValidatorOff
  /\ HelpersOff

\* ───── main ─────
\* a check that forgets the empty list
MandatoryAbsentNullOnly(ecStandards) == ecStandards = Null

\* if (!ecStandards || ecStandards.length === 0) process.exit(1)
MandatoryAbsent(ecStandards) ==
  ecStandards = Null \/ Len(ecStandards[1]) = 0

\* a catch handler that logs and lets the process end with status 0
ThrownExitZero ==
  /\ pc' = "done"
  /\ exitCode' = 0
  /\ threw' = pc

\* main().catch(e => process.exit(1)): a step that throws ends the run
Thrown ==
  /\ pc' = "done"
  /\ exitCode' = 1
  /\ threw' = pc

\* one file of the directory is replaced between two runs
ChangeFiles ==
  /\ pc \in {"idle", "done"}
  /\ runs < MaxRuns
  /\ changes < MaxChanges
  /\ files' \in (OneFileReplaced(files) \cap FileSets) \ {files}
  /\ changes' = changes + 1
  /\ pc' = "idle"
  /\ UNCHANGED <<db, mem, sectorLookup, committeeLookup, cache, stats,
                 accResult, offerResult, exitCode, threw, runs, db0, prevOK,
                 prevStd, prevCounts>>
  /\ UNCHANGED validatorVars
  /\ UNCHANGED helperVars

\* a new process: the directory check, the six loads and the mandatory
\* input check
Load ==
  /\ pc \in {"idle", "done"}
  /\ runs < MaxRuns
  /\ LET loaded == IF files.dir
                   THEN [f \in DOMAIN NothingLoaded |-> LoadJsonFile(files[f])]
                   ELSE NothingLoaded
     IN /\ mem' = loaded
        /\ prevOK' = (runs > 0 /\ exitCode = 0 /\ mem = loaded)
        /\ prevStd' = IF "ecStandards" \in DOMAIN stats THEN Some(mem.std[1]) ELSE Null
        /\ prevCounts' = IF runs > 0 /\ exitCode = 0 /\ mem = loaded
                         THEN [total |-> TotalProcessed(stats),
                               accreditations |-> StatOf(stats, "accreditations"),
                               centerOfferings |-> StatOf(stats, "centerOfferings")]
                         ELSE NoCounts
        /\ IF ~files.dir \/ MandatoryAbsent(loaded.std)
           THEN pc' = "done" /\ exitCode' = 1
           ELSE pc' = "sectors" /\ exitCode' = 0
  /\ runs' = runs + 1
  /\ db0' = db
  /\ sectorLookup' = <<>>
  /\ committeeLookup' = <<>>
  /\ cache' = Null
  /\ stats' = <<>>
  /\ accResult' = Null
  /\ offerResult' = Null
  /\ threw' = ""
  /\ UNCHANGED <<files, db, changes>>
  /\ UNCHANGED validatorVars
  /\ UNCHANGED helperVars

StepSectors ==
  /\ pc = "sectors"
  /\ \E failAt \in 0..NumBatches(Len(SectorMap(mem.std[1], <<>>)), SectorBatchSize) :
       LET r == SeedSectors(db, mem.std[1], failAt)
       IN /\ db' = r.db
          /\ IF r.threw
             THEN Thrown /\ UNCHANGED <<sectorLookup, stats>>
             ELSE /\ sectorLookup' = r.sectorLookup
                  /\ stats' = ("sectors" :> Cardinality(DOMAIN r.sectorLookup)) @@ stats
                  /\ pc' = "committees"
                  /\ UNCHANGED <<exitCode, threw>>
  /\ UNCHANGED <<files, mem, committeeLookup, cache, accResult, offerResult,
                 runs, changes, db0, prevOK,
                 prevStd, prevCounts>>
  /\ UNCHANGED validatorVars
  /\ UNCHANGED helperVars

\* const validCommittees = committees ?? []
ValidCommittees == IF mem.committees = Null THEN <<>> ELSE mem.committees[1]

StepCommittees ==
  /\ pc = "committees"
  /\ IF Len(ValidCommittees) > 0
     THEN \E failAt \in 0..NumBatches(Len(ValidCommittees), CommitteeBatchSize) :
            LET r == SeedCommittees(db, ValidCommittees, sectorLookup, failAt)
            IN /\ db' = r.db
               /\ IF r.threw
                  THEN Thrown /\ UNCHANGED <<committeeLookup, stats>>
                  ELSE /\ committeeLookup' = r.committeeLookup
                       /\ stats' = ("committees" :> Cardinality(DOMAIN r.committeeLookup)) @@ stats
                       /\ pc' = "standards"
                       /\ UNCHANGED <<exitCode, threw>>
     ELSE /\ committeeLookup' = <<>>
          /\ pc' = "standards"
          /\ UNCHANGED <<db, stats, exitCode, threw>>
  /\ UNCHANGED <<files, mem, sectorLookup, cache, accResult, offerResult,
                 runs, changes, db0, prevOK,
                 prevStd, prevCounts>>
  /\ UNCHANGED validatorVars
  /\ UNCHANGED helperVars

\* ecCertifiersAll?.ec_details ?? null
EcDetailsLookup ==
  IF mem.details = Null THEN Null ELSE Some(mem.details[1].ec_details)

StepStandards ==
  /\ pc = "standards"
  /\ \E failStd \in 0..NumBatches(Len(mem.std[1]), EcBatchSize) :
     \E failOcc \in 0..(IF failStd # 0 THEN 0
                        ELSE OccupationBatches(db, mem.std[1], ValidCommittees,
                                               EcDetailsLookup, sectorLookup,
                                               committeeLookup, cache, runs)) :
       LET r == SeedECStandards(db, mem.std[1], ValidCommittees, EcDetailsLookup,
                                sectorLookup, committeeLookup, cache, runs,
                                failStd, failOcc)
       IN /\ db' = r.db
          /\ cache' = r.cache
          /\ IF r.threw
             THEN Thrown /\ UNCHANGED stats
             ELSE /\ stats' = ("ecStandards" :> r.created) @@ stats
                  /\ pc' = "certifiers"
                  /\ UNCHANGED <<exitCode, threw>>
  /\ UNCHANGED <<files, mem, sectorLookup, committeeLookup, accResult,
                 offerResult, runs, changes, db0, prevOK,
                 prevStd, prevCounts>>
  /\ UNCHANGED validatorVars
  /\ UNCHANGED helperVars

StepCertifiers ==
  /\ pc = "certifiers"
  /\ IF mem.certs # Null
     THEN \E failAt \in 0..NumBatches(Len(mem.certs[1].registry), CertifierBatchSize) :
            LET r == SeedCertifiers(db, mem.certs[1].registry, failAt)
            IN /\ db' = r.db
               /\ IF r.threw
                  THEN Thrown /\ UNCHANGED stats
                  ELSE /\ stats' = ("certifiers" :> r.processed) @@ stats
                       /\ pc' = "centers"
                       /\ UNCHANGED <<exitCode, threw>>
     ELSE /\ pc' = "centers"
          /\ UNCHANGED <<db, stats, exitCode, threw>>
  /\ UNCHANGED <<files, mem, sectorLookup, committeeLookup, cache, accResult,
                 offerResult, runs, changes, db0, prevOK,
                 prevStd, prevCounts>>
  /\ UNCHANGED validatorVars
  /\ UNCHANGED helperVars

StepCenters ==
  /\ pc = "centers"
  /\ IF mem.centers # Null
     THEN \E failAt \in 0..NumBatches(Len(mem.centers[1].registry), CenterBatchSize) :
            LET r == SeedCenters(db, mem.centers[1].registry, failAt)
            IN /\ db' = r.db
               /\ IF r.threw
                  THEN Thrown /\ UNCHANGED stats
                  ELSE /\ stats' = ("centers" :> r.processed) @@ stats
                       /\ pc' = "accreditations"
                       /\ UNCHANGED <<exitCode, threw>>
     ELSE /\ pc' = "accreditations"
          /\ UNCHANGED <<db, stats, exitCode, threw>>
  /\ UNCHANGED <<files, mem, sectorLookup, committeeLookup, cache, accResult,
                 offerResult, runs, changes, db0, prevOK,
                 prevStd, prevCounts>>
  /\ UNCHANGED validatorVars
  /\ UNCHANGED helperVars

\* the pass reads the store before its first batch: with no batch to
\* write, the reads are what can throw
StepAccreditations ==
  /\ pc = "accreditations"
  /\ IF mem.matrix # Null
     THEN \E failAt \in 0..(IF AccreditationBatches(db, mem.matrix[1].matrix) = 0 THEN 1
                            ELSE AccreditationBatches(db, mem.matrix[1].matrix)) :
            LET r == SeedAccreditations(db, mem.matrix[1].matrix, failAt)
            IN /\ db' = r.db
               /\ IF r.threw
                  THEN Thrown /\ UNCHANGED <<stats, accResult>>
                  ELSE /\ accResult' = Some([created |-> r.created, skipped |-> r.skipped])
                       /\ stats' = ("accreditations" :> r.created) @@ stats
                       /\ pc' = "offerings"
                       /\ UNCHANGED <<exitCode, threw>>
     ELSE /\ pc' = "offerings"
          /\ UNCHANGED <<db, stats, accResult, exitCode, threw>>
  /\ UNCHANGED <<files, mem, sectorLookup, committeeLookup, cache, offerResult,
                 runs, changes, db0, prevOK,
                 prevStd, prevCounts>>
  /\ UNCHANGED validatorVars
  /\ UNCHANGED helperVars

StepOfferings ==
  /\ pc = "offerings"
  /\ IF mem.centers # Null
     THEN \E failAt \in 0..(IF OfferingBatches(db, mem.centers[1].registry) = 0 THEN 1
                            ELSE OfferingBatches(db, mem.centers[1].registry)) :
            LET r == SeedCenterOfferings(db, mem.centers[1].registry, failAt)
            IN /\ db' = r.db
               /\ IF r.threw
                  THEN Thrown /\ UNCHANGED <<stats, offerResult>>
                  ELSE /\ offerResult' = Some([created |-> r.created, skipped |-> r.skipped])
                       /\ stats' = ("centerOfferings" :> r.created) @@ stats
                       /\ pc' = "ledger"
                       /\ UNCHANGED <<exitCode, threw>>
     ELSE /\ pc' = "ledger"
          /\ UNCHANGED <<db, stats, offerResult, exitCode, threw>>
  /\ UNCHANGED <<files, mem, sectorLookup, committeeLookup, cache, accResult,
                 runs, changes, db0, prevOK,
                 prevStd, prevCounts>>
  /\ UNCHANGED validatorVars
  /\ UNCHANGED helperVars

StepLedger ==
  /\ pc = "ledger"
  /\ \E fails \in BOOLEAN :
       IF fails
       THEN Thrown /\ UNCHANGED db
       ELSE /\ db' = CreateSyncJobRecord(db, stats)
            /\ pc' = "done"
            /\ UNCHANGED <<exitCode, threw>>
  /\ UNCHANGED <<files, mem, sectorLookup, committeeLookup, cache, stats,
                 accResult, offerResult, runs, changes, db0, prevOK,
                 prevStd, prevCounts>>
  /\ UNCHANGED validatorVars
  /\ UNCHANGED helperVars

Next ==
  \/ ChangeFiles
  \/ Load
  \/ StepSectors
  \/ StepCommittees
  \/ StepStandards
  \/ StepCertifiers
  \/ StepCenters
  \/ StepAccreditations
  \/ StepOfferings
  \/ StepLedger

Spec == Init /\ [][Next]_vars

\* the runs that start on the directory with the long committee extract
LongInit ==
  /\ files = LongFiles
  /\ db = EmptyDb
  /\ pc = "idle"
  /\ mem = NothingLoaded
  /\ sectorLookup = <<>>
  /\ committeeLookup = <<>>
  /\ cache = Null
  /\ stats = <<>>
  /\ accResult = Null
  /\ offerResult = Null
  /\ exitCode = 0
  /\ threw = ""
  /\ runs = 0
  /\ changes = 0
  /\ db0 = EmptyDb
  /\ prevOK = FALSE
  /\ prevStd = Null
  /\ prevCounts = NoCounts
  /\ ValidatorOff
  /\ HelpersOff

LongSpec == LongInit /\ [][Next]_vars

\* ───── the join rows marked outside the seed ─────
\* the rich directory with the single standard EC0249
OneStandardFiles == [RichFiles EXCEPT !.std = OnDisk(<<EcTurismo>>)]

\* between two runs, outside the seed: every Accreditation row is marked
\* as no longer valid and every Offering row as no longer active
SetFlagsFalse ==
  /\ pc \in {"idle", "done"}
  /\ runs < MaxRuns
  /\ \/ \E r \in db.accreditations : r.vigente
     \/ \E r \in db.offerings : r.activo
  /\ db' = [db EXCEPT
              !.accreditations = {[r EXCEPT !.vigente = FALSE] : r \in @},
              !.offerings = {[r EXCEPT !.activo = FALSE] : r \in @}]
  /\ pc' = "idle"
  /\ UNCHANGED <<files, mem, sectorLookup, committeeLookup, cache, stats,
                 accResult, offerResult, exitCode, threw, runs, changes, db0,
                 prevOK, prevStd, prevCounts>>
  /\ UNCHANGED validatorVars
  /\ UNCHANGED helperVars

FlagInit ==
  /\ files \in {RichFiles, OneStandardFiles}
  /\ db = EmptyDb
  /\ pc = "idle"
  /\ mem = NothingLoaded
  /\ sectorLookup = <<>>
  /\ committeeLookup = <<>>
  /\ cache = Null
  /\ stats = <<>>
  /\ accResult = Null
  /\ offerResult = Null
  /\ exitCode = 0
  /\ threw = ""
  /\ runs = 0
  /\ changes = 0
  /\ db0 = EmptyDb
  /\ prevOK = FALSE
  /\ prevStd = Null
  /\ prevCounts = NoCounts
  /\ ValidatorOff
  /\ HelpersOff

FlagNext ==
  \/ Next
  \/ SetFlagsFalse

FlagSpec == FlagInit /\ [][FlagNext]_vars

\* ───── the stores the validator is run against ─────
\* The validator reads whatever the store holds: the stores are taken
\* without the foreign keys of the schema, whose breach is what the
\* integrity section looks for.
FormatCodes ==
  <<"EC0249", "EC0249.01", "AB1234", "ec0249", "EC024", "EC0249.1", "EC02490">>

\* more non-conforming codes than the validator prints
BadCodes ==
  <<"X01", "X02", "X03", "X04", "X05", "X06", "X07", "X08", "X09", "X10", "X11">>

AllCodes == FormatCodes \o BadCodes

\* the standards of a store, as positions in AllCodes
CodeSets ==
  {S \in SUBSET (1..Len(FormatCodes)) : Cardinality(S) <= MaxCodes}
  \cup {{Len(FormatCodes) + k : k \in 1..Len(BadCodes)}}

DefectKinds ==
  {"accCert", "accEc", "offCenter", "offEc", "ecCommittee", "ecSector",
   "commSector", "occEc"}

DefectSets == {D \in SUBSET DefectKinds : Cardinality(D) <= MaxDefects}

\* an identity that no row of the store has
Gone(tbl) == <<tbl, 99>>

\* the standard that the sound relation rows of a store reference
Anchor(S) == IF S = {} THEN Gone("ec") ELSE <<"ec", CHOOSE i \in S : \A j \in S : i <= j>>

\* S: the standards; D: the defective rows; base: one sound row in each
\* other table
StoreOf(S, D, base) ==
  LET sector == <<"sector", 1>>
      committee == <<"committee", 1>>
      certifier == IF base THEN <<"certifier", 1>> ELSE Gone("certifier")
      center == IF base THEN <<"center", 1>> ELSE Gone("center")
      linked(i) == base /\ <<"ec", i>> = Anchor(S)
      ec(i) == [id |-> <<"ec", i>>, ecClave |-> AllCodes[i], titulo |-> "t",
                vigente |-> TRUE,
                committeeId |-> IF linked(i) THEN committee ELSE Null,
                sectorId |-> IF linked(i) THEN sector ELSE Null]
      sound == base /\ S # {}
  IN [sectors |-> IF base
                  THEN {[id |-> sector, sectorId |-> 5, nombre |-> "Turismo",
                         tipo |-> "productivo"]}
                  ELSE {},
      committees |->
        (IF base
         THEN {[id |-> committee, committeeKey |-> "CGC-1", nombre |-> "c",
                sectorId |-> sector]}
         ELSE {})
        \cup (IF "commSector" \in D
              THEN {[id |-> <<"committee", 91>>, committeeKey |-> "CGC-9",
                     nombre |-> "c", sectorId |-> Gone("sector")]}
              ELSE {}),
      ecs |->
        {ec(i) : i \in S}
        \cup (IF "ecCommittee" \in D
              THEN {[id |-> <<"ec", 91>>, ecClave |-> "EC9001", titulo |-> "t",
                     vigente |-> FALSE, committeeId |-> Gone("committee"),
                     sectorId |-> Null]}
              ELSE {})
        \cup (IF "ecSector" \in D
              THEN {[id |-> <<"ec", 92>>, ecClave |-> "EC9002", titulo |-> "t",
                     vigente |-> TRUE, committeeId |-> Null,
                     sectorId |-> Gone("sector")]}
              ELSE {}),
      certifiers |-> IF base
                     THEN {[id |-> certifier, certId |-> "ECE-1",
                            razonSocial |-> "r", activo |-> TRUE]}
                     ELSE {},
      centers |-> IF base
                  THEN {[id |-> center, centerId |-> "CCAP-1", nombre |-> "n",
                         activo |-> TRUE]}
                  ELSE {},
      accreditations |->
        (IF sound
         THEN {[id |-> <<"accreditation", 1>>, certifierId |-> certifier,
                ecId |-> Anchor(S), vigente |-> TRUE]}
         ELSE {})
        \cup (IF "accCert" \in D
              THEN {[id |-> <<"accreditation", 91>>,
                     certifierId |-> Gone("certifier"), ecId |-> Anchor(S),
                     vigente |-> TRUE]}
              ELSE {})
        \cup (IF "accEc" \in D
              THEN {[id |-> <<"accreditation", 92>>, certifierId |-> certifier,
                     ecId |-> Gone("ec"), vigente |-> TRUE]}
              ELSE {}),
      offerings |->
        (IF sound
         THEN {[id |-> <<"offering", 1>>, centerId |-> center,
                ecId |-> Anchor(S), activo |-> TRUE]}
         ELSE {})
        \cup (IF "offCenter" \in D
              THEN {[id |-> <<"offering", 91>>, centerId |-> Gone("center"),
                     ecId |-> Anchor(S), activo |-> TRUE]}
              ELSE {})
        \cup (IF "offEc" \in D
              THEN {[id |-> <<"offering", 92>>, centerId |-> center,
                     ecId |-> Gone("ec"), activo |-> TRUE]}
              ELSE {}),
      occupations |->
        (IF sound
         THEN {[id |-> <<"occupation", 1>>, ecId |-> Anchor(S),
                occupation |-> OccGuia]}
         ELSE {})
        \cup (IF "occEc" \in D
              THEN {[id |-> <<"occupation", 91>>, ecId |-> Gone("ec"),
                     occupation |-> OccChef]}
              ELSE {}),
      syncJobs |-> IF base
                   THEN {SyncJobData([sectors |-> 1]) @@ ("id" :> <<"syncJob", 1>>)}
                   ELSE {},
      seq |-> [sector |-> 100, committee |-> 100, ec |-> 100, certifier |-> 100,
               center |-> 100, accreditation |-> 100, offering |-> 100,
               occupation |-> 100, syncJob |-> 100]]

ValidatorStores ==
  {StoreOf(S, D, base) : S \in CodeSets, D \in DefectSets, base \in BOOLEAN}

\* the least count that is 90% of the baseline
Threshold(t) == (9 * ExpectedCount[t] + 9) \div 10

\* no further rows, or one short of the threshold in every table
Bulks == {NoBulk, [t \in Tables |-> Threshold(t) - 1]}

\* ───── main of the validator ─────
ValidatorInit ==
  /\ files = RichFiles
  /\ db \in ValidatorStores
  /\ pc = "idle"
  /\ mem = NothingLoaded
  /\ sectorLookup = <<>>
  /\ committeeLookup = <<>>
  /\ cache = Null
  /\ stats = <<>>
  /\ accResult = Null
  /\ offerResult = Null
  /\ exitCode = 0
  /\ threw = ""
  /\ runs = 0
  /\ changes = 0
  /\ db0 = db
  /\ prevOK = FALSE
  /\ prevStd = Null
  /\ prevCounts = NoCounts
  /\ bulk \in Bulks
  /\ vpc = "counts"
  /\ results = <<>>
  /\ listed = {}
  /\ figures = <<>>
  /\ vExit = 0
  /\ vThrew = FALSE
  /\ HelpersOff

\* section 1: the nine counts and their checks
RecordCounts ==
  /\ vpc = "counts"
  /\ results' = results \o CountResults(db, bulk)
  /\ vpc' = "completeness"
  /\ UNCHANGED <<db, bulk, listed, figures, vExit, vThrew>>
  /\ UNCHANGED seedVars
  /\ UNCHANGED helperVars

\* section 2
EcDataCompleteness ==
  /\ vpc = "completeness"
  /\ figures' = EcCompleteness(db) @@ figures
  /\ vpc' = "format"
  /\ UNCHANGED <<db, bulk, results, listed, vExit, vThrew>>
  /\ UNCHANGED seedVars
  /\ UNCHANGED helperVars

\* section 3: the rows come in the order the store returns them, and the
\* first ten non-conforming ones are printed
EcCodeFormat ==
  /\ vpc = "format"
  /\ results' = Append(results, FormatResult(db))
  /\ \E shown \in SUBSET InvalidCodes(db) :
       /\ Cardinality(shown) = Min(DisplayCap, Cardinality(InvalidCodes(db)))
       /\ listed' = shown
  /\ vpc' = "fields"
  /\ UNCHANGED <<db, bulk, figures, vExit, vThrew>>
  /\ UNCHANGED seedVars
  /\ UNCHANGED helperVars

\* section 4
FieldCoverageReport ==
  /\ vpc = "fields"
  /\ figures' = FieldCoverage(db) @@ figures
  /\ vpc' = "integrity"
  /\ UNCHANGED <<db, bulk, results, listed, vExit, vThrew>>
  /\ UNCHANGED seedVars
  /\ UNCHANGED helperVars

\* section 5: the six orphan counts and their checks
ReferentialIntegrity ==
  /\ vpc = "integrity"
  /\ results' = results \o IntegrityResults(db)
  /\ vpc' = "coverage"
  /\ UNCHANGED <<db, bulk, listed, figures, vExit, vThrew>>
  /\ UNCHANGED seedVars
  /\ UNCHANGED helperVars

\* section 6
AccreditationCoverageReport ==
  /\ vpc = "coverage"
  /\ figures' = AccreditationCoverage(db) @@ figures
  /\ vpc' = "summary"
  /\ UNCHANGED <<db, bulk, results, listed, vExit, vThrew>>
  /\ UNCHANGED seedVars
  /\ UNCHANGED helperVars

\* the tally and the exit status
Summary ==
  /\ vpc = "summary"
  /\ vExit' = ExitStatus(results)
  /\ vpc' = "done"
  /\ UNCHANGED <<db, bulk, results, listed, figures, vThrew>>
  /\ UNCHANGED seedVars
  /\ UNCHANGED helperVars

\* main().catch(e => process.exit(1)): a query that throws ends the
\* validator
ValidatorThrown ==
  /\ vpc \in {"counts", "completeness", "format", "fields", "integrity",
              "coverage"}
  /\ vpc' = "done"
  /\ vExit' = 1
  /\ vThrew' = TRUE
  /\ UNCHANGED <<db, bulk, results, listed, figures>>
  /\ UNCHANGED seedVars
  /\ UNCHANGED helperVars

ValidatorNext ==
  \/ RecordCounts
  \/ EcDataCompleteness
  \/ EcCodeFormat
  \/ FieldCoverageReport
  \/ ReferentialIntegrity
  \/ AccreditationCoverageReport
  \/ Summary
  \/ ValidatorThrown

ValidatorSpec == ValidatorInit /\ [][ValidatorNext]_vars

\* ───── the helpers called on their own ─────
\* raw entity types: none, empty, the values the source names, the two
\* keywords in several cases and inside longer texts, and near misses
EntityTypes ==
  { Null, Some(""), Some("ECE"), Some("Unknown"), Some("SA de CV"), Some("SC"),
    Some("OC"), Some("oc"), Some("Oc"), Some("GOBIERNO"),
    Some("Gobierno Federal"), Some("Sociedad Civil"), Some("gobiern"),
    Some("O C") }

CommitteeLists ==
  { <<>>, <<ComiteTurismo>>, <<ComiteOtro>>,
    <<ComiteTurismo, ComiteOtro, ComiteSinSector>> }

HelperInit ==
  /\ files = RichFiles
  /\ db = EmptyDb
  /\ pc = "idle"
  /\ mem = NothingLoaded
  /\ sectorLookup = <<>>
  /\ committeeLookup = <<>>
  /\ cache = Null
  /\ stats = <<>>
  /\ accResult = Null
  /\ offerResult = Null
  /\ exitCode = 0
  /\ threw = ""
  /\ runs = 0
  /\ changes = 0
  /\ db0 = EmptyDb
  /\ prevOK = FALSE
  /\ prevStd = Null
  /\ prevCounts = NoCounts
  /\ ValidatorOff
  /\ entityTypes \in [1..MaxTypes -> EntityTypes]
  /\ tipos = <<>>
  /\ requests \in [1..MaxRequests -> CommitteeLists]
  /\ returned = <<>>

\* resolveCertifierTipo(cert.entity_type) for the next type
ResolveTipo ==
  /\ entityTypes # <<>>
  /\ tipos' = Append(tipos, [entityType |-> Head(entityTypes),
                             tipo |-> ResolveCertifierTipo(Head(entityTypes))])
  /\ entityTypes' = Tail(entityTypes)
  /\ UNCHANGED <<files, db, pc, mem, sectorLookup, committeeLookup, cache,
                 stats, accResult, offerResult, exitCode, threw, runs,
                 changes, db0, prevOK, prevStd, prevCounts, requests, returned>>
  /\ UNCHANGED validatorVars

\* buildEcToCommitteeKeyIndex(committees) for the next list
RequestIndex ==
  /\ requests # <<>>
  /\ LET index == BuildEcToCommitteeKeyIndex(cache, Head(requests))
     IN /\ cache' = index
        /\ returned' = Append(returned, [committees |-> Head(requests),
                                         index |-> index[1]])
  /\ requests' = Tail(requests)
  /\ UNCHANGED <<files, db, pc, mem, sectorLookup, committeeLookup, stats,
                 accResult, offerResult, exitCode, threw, runs, changes, db0,
                 prevOK, prevStd, prevCounts, entityTypes, tipos>>
  /\ UNCHANGED validatorVars

HelperNext ==
  \/ ResolveTipo
  \/ RequestIndex

HelperSpec == HelperInit /\ [][HelperNext]_vars

\* ───── properties ─────
Exited == pc = "done"

Succeeded == pc = "done" /\ exitCode = 0

EntityTables == {"sectors", "committees", "ecs", "certifiers", "centers"}

AccreditationPairSet(d) == {<<r.ecId, r.certifierId>> : r \in d.accreditations}

OfferingPairSet(d) == {<<r.centerId, r.ecId>> : r \in d.offerings}

OccupationPairSet(d) == {<<r.ecId, r.occupation>> : r \in d.occupations}

RECURSIVE MatrixPairCount(_)
\* number of (standard code, certifier id) pairs listed in a matrix
MatrixPairCount(matrix) ==
  IF matrix = <<>> THEN 0
  ELSE Len(Head(matrix).ece_ids) + MatrixPairCount(Tail(matrix))

\* C1: a run that ends with status 0 right after a run that ended with
\* status 0 on the same extracts leaves the number of Sector, Committee,
\* Standard, Certifier and Center rows and the Accreditation, Offering and
\* Occupation relations (pairs and rows) as they were when it started.
C1_SecondRunChangesNothing ==
  (Succeeded /\ prevOK) =>
    /\ \A t \in EntityTables : Cardinality(db[t]) = Cardinality(db0[t])
    /\ AccreditationPairSet(db) = AccreditationPairSet(db0)
    /\ OfferingPairSet(db) = OfferingPairSet(db0)
    /\ OccupationPairSet(db) = OccupationPairSet(db0)
    /\ db.accreditations = db0.accreditations
    /\ db.offerings = db0.offerings
    /\ db.occupations = db0.occupations

\* a second run over the same extracts has ended, on a store that holds
\* rows of the three relations
C1_Witness ==
  /\ Succeeded /\ prevOK
  /\ db.accreditations # {} /\ db.offerings # {} /\ db.occupations # {}
  /\ Cardinality(db.syncJobs) = 2

\* C2: when the accreditation pass has returned, the number of pairs listed
\* in the matrix equals the reported created plus the reported skipped.
C2_AttemptedIsCreatedPlusSkipped ==
  accResult # Null =>
    MatrixPairCount(mem.matrix[1].matrix)
      = accResult[1].created + accResult[1].skipped

\* the pairs of the matrix whose standard is in the store and whose
\* certifier is not
UnresolvedCertifierPairs(matrix, d) ==
  {<<i, j>> \in (DOMAIN matrix) \X (1..4) :
     /\ j \in DOMAIN matrix[i].ece_ids
     /\ \E e \in d.ecs : e.ecClave = matrix[i].ecClave
     /\ ~\E c \in d.certifiers : c.certId = matrix[i].ece_ids[j]}

\* C3: when the accreditation pass has returned, every matrix pair whose
\* certifier id is not in the store is counted in the reported skipped and
\* has no Accreditation row; and the run, unless a step throws, ends with
\* status 0 and one more ledger row.
C3_UnresolvedCertifierIsReportedSkipped ==
  accResult # Null =>
    /\ accResult[1].skipped
         >= Cardinality(UnresolvedCertifierPairs(mem.matrix[1].matrix, db))
    /\ \A a \in db.accreditations : \E c \in db.certifiers : c.id = a.certifierId
    /\ (Exited /\ threw = "") =>
         /\ exitCode = 0
         /\ Cardinality(db.syncJobs) = Cardinality(db0.syncJobs) + 1

\* the extract cannot be loaded: absent, or present and not JSON
Unusable(f) == ~f.exists \/ ~f.parses

\* the directory exists and the standard list loads and is not empty
StandardsUsable ==
  files.dir /\ ~Unusable(files.std) /\ files.std.content # <<>>

\* C4 (as amended): a run on an empty store over a standard list holding
\* the one record EC0249 of sector 5, an empty matrix and empty certifier
\* and center registries ends with exactly one Standard row, no
\* Accreditation row and one ledger row whose itemsProcessed is 2 (one
\* sector and one standard) plus the number of distinct committee keys of
\* the committee extract.
SingleStandardScenario ==
  /\ Succeeded
  /\ db0 = EmptyDb
  /\ files.dir
  /\ files.std = OnDisk(<<EcTurismo>>)
  /\ files.matrix = OnDisk([matrix |-> <<>>])
  /\ files.certs = OnDisk([registry |-> <<>>])
  /\ files.centers = OnDisk([registry |-> <<>>])

DistinctCommitteeKeys ==
  IF Unusable(files.committees) THEN {}
  ELSE {files.committees.content[i].clave : i \in DOMAIN files.committees.content}

C4_SingleStandardLedger ==
  SingleStandardScenario =>
    /\ Cardinality(db.ecs) = 1
    /\ db.accreditations = {}
    /\ Cardinality(db.syncJobs) = 1
    /\ \A j \in db.syncJobs :
         j.itemsProcessed = 2 + Cardinality(DistinctCommitteeKeys)

\* the scenario has run, with a committee extract of two distinct keys
C4_Witness ==
  /\ SingleStandardScenario
  /\ Cardinality(DistinctCommitteeKeys) = 2
  /\ \E j \in db.syncJobs : j.itemsProcessed = 4

\* C4 (as claimed): in that scenario the ledger row has itemsProcessed = 1.
C4_AsClaimed ==
  SingleStandardScenario =>
    /\ Cardinality(db.ecs) = 1
    /\ db.accreditations = {}
    /\ Cardinality(db.syncJobs) = 1
    /\ \A j \in db.syncJobs : j.itemsProcessed = 1

\* C5: every Accreditation row references a Standard row and a Certifier
\* row of the store, every Offering row a Center row and a Standard row,
\* and every Occupation row a Standard row.
C5_NoOrphanJoinRow ==
  /\ \A a \in db.accreditations :
       /\ \E e \in db.ecs : e.id = a.ecId
       /\ \E c \in db.certifiers : c.id = a.certifierId
  /\ \A o \in db.offerings :
       /\ \E c \in db.centers : c.id = o.centerId
       /\ \E e \in db.ecs : e.id = o.ecId
  /\ \A o \in db.occupations : \E e \in db.ecs : e.id = o.ecId

\* a run has ended whose matrix, center registry and detail extract each
\* name a side that is not in the store, and whose three passes inserted rows
C5_Witness ==
  /\ Succeeded
  /\ db.accreditations # db0.accreditations
  /\ db.offerings # db0.offerings
  /\ db.occupations # db0.occupations
  /\ UnresolvedCertifierPairs(mem.matrix[1].matrix, db) # {}
  /\ \E i \in DOMAIN mem.matrix[1].matrix :
       ~\E e \in db.ecs : e.ecClave = mem.matrix[1].matrix[i].ecClave
  /\ \E i \in DOMAIN mem.centers[1].registry :
       \E j \in DOMAIN mem.centers[1].registry[i].ec_codes :
         ~\E e \in db.ecs : e.ecClave = mem.centers[1].registry[i].ec_codes[j]
  /\ \E i \in DOMAIN mem.details[1].ec_details :
       ~\E e \in db.ecs : e.ecClave = mem.details[1].ec_details[i].ecClave

\* C6: each entity table holds at most one row per natural key and each
\* relation at most one row per pair.
C6_OneRowPerKey ==
  /\ \A r1, r2 \in db.sectors : r1.sectorId = r2.sectorId => r1 = r2
  /\ \A r1, r2 \in db.committees : r1.committeeKey = r2.committeeKey => r1 = r2
  /\ \A r1, r2 \in db.ecs : r1.ecClave = r2.ecClave => r1 = r2
  /\ \A r1, r2 \in db.certifiers : r1.certId = r2.certId => r1 = r2
  /\ \A r1, r2 \in db.centers : r1.centerId = r2.centerId => r1 = r2
  /\ \A r1, r2 \in db.accreditations :
       (r1.ecId = r2.ecId /\ r1.certifierId = r2.certifierId) => r1 = r2
  /\ \A r1, r2 \in db.offerings :
       (r1.centerId = r2.centerId /\ r1.ecId = r2.ecId) => r1 = r2
  /\ \A r1, r2 \in db.occupations :
       (r1.ecId = r2.ecId /\ r1.occupation = r2.occupation) => r1 = r2

\* two runs have ended over the extracts in which the same standard code,
\* committee key, certifier id and pairs occur several times
C6_Witness ==
  /\ Succeeded /\ runs = 2 /\ prevOK
  /\ files = RichFiles
  /\ Cardinality(db.ecs) = 2 /\ Cardinality(db.committees) = 2
  /\ Cardinality(db.certifiers) = 2 /\ Cardinality(db.accreditations) = 2
  /\ Cardinality(db.offerings) = 2 /\ Cardinality(db.occupations) = 3

\* C7: a run whose directory or standard list is absent, or whose standard
\* list is unparsable or empty, ends with a non-zero status and leaves the
\* store, ledger included, as it was when the run started.
C7_NoStandardsNoWrite ==
  (Exited /\ ~StandardsUsable) => (exitCode # 0 /\ db = db0)

\* a run over an empty standard list has ended on a store that an earlier
\* run had filled
C7_Witness ==
  /\ Exited
  /\ files.dir /\ files.std = OnDisk(<<>>)
  /\ db.ecs # {} /\ db.syncJobs # {}
  /\ exitCode = 1

\* C8: in a run with a usable standard list in which no step throws, the
\* loader returns null for every extract that is absent or unparsable, each
\* step runs exactly when its extract was loaded (the committee step when
\* it is not empty either), a step that does not run leaves its tables
\* as they were, the sector and standard steps always run, and the run ends
\* with status 0 and one more ledger row, COMPLETED, with no errors.
C8_OptionalExtractsDegrade ==
  (Exited /\ StandardsUsable /\ threw = "") =>
    /\ exitCode = 0
    /\ Cardinality(db.syncJobs) = Cardinality(db0.syncJobs) + 1
    /\ \A j \in db.syncJobs \ db0.syncJobs :
         j.status = "COMPLETED" /\ j.errors = <<>>
    /\ {"sectors", "ecStandards"} \subseteq DOMAIN stats
    /\ \A f \in {"committees", "certs", "centers", "matrix", "details"} :
         Unusable(files[f]) => mem[f] = Null
    /\ IF Unusable(files.committees) \/ files.committees.content = <<>>
       THEN "committees" \notin DOMAIN stats /\ db.committees = db0.committees
       ELSE "committees" \in DOMAIN stats
    /\ IF Unusable(files.certs)
       THEN "certifiers" \notin DOMAIN stats /\ db.certifiers = db0.certifiers
       ELSE "certifiers" \in DOMAIN stats
    /\ IF Unusable(files.centers)
       THEN /\ {"centers", "centerOfferings"} \cap DOMAIN stats = {}
            /\ db.centers = db0.centers /\ db.offerings = db0.offerings
       ELSE {"centers", "centerOfferings"} \subseteq DOMAIN stats
    /\ IF Unusable(files.matrix)
       THEN /\ "accreditations" \notin DOMAIN stats
            /\ db.accreditations = db0.accreditations
       ELSE "accreditations" \in DOMAIN stats
    /\ Unusable(files.details) => db.occupations = db0.occupations

\* a run has ended in which the center registry was unparsable and the
\* other extracts were loaded and written
C8_Witness ==
  /\ Succeeded
  /\ files.centers.exists /\ ~files.centers.parses
  /\ db.ecs # {} /\ db.certifiers # {} /\ db.accreditations # {}
  /\ db.centers = {} /\ db.offerings = {}
  /\ Cardinality(db.syncJobs) = 1

\* the steps of main in order, and the tables each one writes
StepOrder ==
  <<"sectors", "committees", "standards", "certifiers", "centers",
    "accreditations", "offerings", "ledger">>

WrittenBy ==
  [sectors |-> {"sectors"}, committees |-> {"committees"},
   standards |-> {"ecs", "occupations"}, certifiers |-> {"certifiers"},
   centers |-> {"centers"}, accreditations |-> {"accreditations"},
   offerings |-> {"offerings"}, ledger |-> {"syncJobs"}]

Position(step) == CHOOSE i \in DOMAIN StepOrder : StepOrder[i] = step

NaturalKey ==
  [sectors |-> "sectorId", committees |-> "committeeKey", ecs |-> "ecClave",
   certifiers |-> "certId", centers |-> "centerId"]

\* what makes a row the same row: identity and natural key for an entity,
\* the whole row for a relation or a ledger entry
RowIdentities(d, t) ==
  IF t \in EntityTables THEN {<<r.id, r[NaturalKey[t]]>> : r \in d[t]}
  ELSE d[t]

\* C10: no step removes a row from any table: the rows before a step are
\* among the rows after it, whether or not their keys or pairs are in the
\* extracts of the run; so the Occupation pairs only grow.
C10_NoRowRemoved ==
  [][/\ \A t \in Tables : RowIdentities(db, t) \subseteq RowIdentities(db', t)
     /\ OccupationPairSet(db) \subseteq OccupationPairSet(db')]_vars

\* a second run has ended over a standard list and a detail extract that
\* no longer name a standard the store holds with its occupation
C10_Witness ==
  /\ Succeeded /\ runs = 2 /\ changes = 1
  /\ db.ecs # db0.ecs \/ db.sectors # db0.sectors
  /\ \E e \in db.ecs :
       /\ \A i \in DOMAIN files.std.content : files.std.content[i].codigo # e.ecClave
       /\ \E o \in db.occupations : o.ecId = e.id

\* the count a step reported in this run, 0 for a step that did not run
StepCount(k) == IF k \in DOMAIN stats THEN stats[k] ELSE 0

StatKeys ==
  {"sectors", "committees", "ecStandards", "certifiers", "centers",
   "accreditations", "centerOfferings"}

\* C11: the ledger is not written while a resolver or join step is still to
\* run, and a run that ends with status 0 has added exactly one ledger row:
\* status COMPLETED, itemsProcessed the sum of the counts reported by the
\* steps that ran, itemsCreated equal to itemsProcessed, itemsUpdated and
\* itemsSkipped 0, and an empty error list.
C11_OneLedgerRowPerCompletedRun ==
  /\ pc \in {StepOrder[i] : i \in DOMAIN StepOrder} => db.syncJobs = db0.syncJobs
  /\ Succeeded =>
       /\ db0.syncJobs \subseteq db.syncJobs
       /\ Cardinality(db.syncJobs \ db0.syncJobs) = 1
       /\ DOMAIN stats \subseteq StatKeys
       /\ \A j \in db.syncJobs \ db0.syncJobs :
            /\ j.status = "COMPLETED"
            /\ j.itemsProcessed
                 = StepCount("sectors") + StepCount("committees")
                   + StepCount("ecStandards") + StepCount("certifiers")
                   + StepCount("centers") + StepCount("accreditations")
                   + StepCount("centerOfferings")
            /\ j.itemsCreated = j.itemsProcessed
            /\ j.itemsUpdated = 0
            /\ j.itemsSkipped = 0
            /\ j.errors = <<>>

\* a second run in which all seven steps ran and reported has ended with
\* its own ledger row
C11_Witness ==
  /\ Succeeded /\ runs = 2
  /\ DOMAIN stats = StatKeys
  /\ Cardinality(db.syncJobs) = 2
  /\ \E j \in db.syncJobs \ db0.syncJobs : j.itemsProcessed > 7

\* ───── properties of the validator ─────
\* the check of the results array with this name, when it has been pushed
HasCheck(name) == \E i \in DOMAIN results : results[i].check = name

StatusOf(name) == (CHOOSE r \in {results[i] : i \in DOMAIN results} : r.check = name).status

ChecksNamed(name) == {i \in DOMAIN results : results[i].check = name}

\* C12: once the count section has run, each of the nine entity types has
\* exactly one count check, whose status is PASS when the row count is at
\* least 90% of the baseline, WARN when it is above 0 and below that, and
\* FAIL when it is 0.
C12_CountStatus ==
  vpc \notin {"off", "counts"} /\ Len(results) >= 9 =>
    \A t \in Tables :
      LET name == ModelName[t] \o " count"
          actual == Cardinality(db[t]) + bulk[t]
          enough == 100 * actual >= 90 * ExpectedCount[t]
      IN /\ Cardinality(ChecksNamed(name)) = 1
         /\ StatusOf(name) \in {"PASS", "WARN", "FAIL"}
         /\ StatusOf(name) = "PASS" <=> enough
         /\ StatusOf(name) = "WARN" <=> (actual > 0 /\ ~enough)
         /\ StatusOf(name) = "FAIL" <=> actual = 0

\* the counts have been checked on a store with a table exactly at its
\* threshold, a table one row short of it and an empty table
C12_Witness ==
  /\ vpc = "done" /\ ~vThrew
  /\ Cardinality(db.ecs) + bulk.ecs = Threshold("ecs")
  /\ StatusOf("RenecEC count") = "PASS"
  /\ Cardinality(db.certifiers) + bulk.certifiers = Threshold("certifiers") - 1
  /\ StatusOf("RenecCertifier count") = "WARN"
  /\ StatusOf("RenecSyncJob count") = "FAIL"

UpperCase ==
  {"A", "B", "C", "D", "E", "F", "G", "H", "I", "J", "K", "L", "M", "N", "O",
   "P", "Q", "R", "S", "T", "U", "V", "W", "X", "Y", "Z"}

Numerals == {"0", "1", "2", "3", "4", "5", "6", "7", "8", "9"}

\* four digits from position 3, then nothing or a dot and two digits
FourDigitsAndVersion(s) ==
  /\ Len(s) >= 6
  /\ \A k \in 3..6 : SubSeq(s, k, k) \in Numerals
  /\ \/ Len(s) = 6
     \/ /\ Len(s) = 9
        /\ SubSeq(s, 7, 7) = "."
        /\ SubSeq(s, 8, 8) \in Numerals /\ SubSeq(s, 9, 9) \in Numerals

\* the letters EC, four digits, optionally a dot and two digits
ConformsEC(s) ==
  Len(s) >= 2 /\ SubSeq(s, 1, 2) = "EC" /\ FourDigitsAndVersion(s)

\* two upper-case letters, four digits, optionally a dot and two digits
ConformsTwoLetters(s) ==
  /\ Len(s) >= 2
  /\ SubSeq(s, 1, 1) \in UpperCase /\ SubSeq(s, 2, 2) \in UpperCase
  /\ FourDigitsAndVersion(s)

StoredCodes == {e.ecClave : e \in db.ecs}

FormatChecked == vpc \in {"fields", "integrity", "coverage", "summary"} \/ (vpc = "done" /\ HasCheck("EC code format"))

\* C13 (as amended): a standard code conforms exactly when it is the
\* letters EC followed by four digits, optionally followed by a dot and two
\* digits; the format check is PASS when every stored code conforms and
\* WARN, never FAIL, when one does not; the codes printed are
\* non-conforming stored codes, all of them when they are at most ten, ten
\* of them otherwise.
C13_FormatCheckEC ==
  FormatChecked =>
    LET bad == {c \in StoredCodes : ~ConformsEC(c)}
    IN /\ Cardinality(ChecksNamed("EC code format")) = 1
       /\ StatusOf("EC code format") = IF bad = {} THEN "PASS" ELSE "WARN"
       /\ listed \subseteq bad
       /\ Cardinality(listed) = Min(10, Cardinality(bad))

\* the format check has run on a store that holds a conforming code with
\* version and a code of two other upper-case letters
C13_Witness ==
  /\ FormatChecked
  /\ StoredCodes = {"EC0249.01", "AB1234"}
  /\ StatusOf("EC code format") = "WARN"
  /\ listed = {"AB1234"}

\* C13 (as claimed): the same with any two upper-case letters in front.
C13_AsClaimed ==
  FormatChecked =>
    LET bad == {c \in StoredCodes : ~ConformsTwoLetters(c)}
    IN /\ StatusOf("EC code format") = IF bad = {} THEN "PASS" ELSE "WARN"
       /\ listed \subseteq bad
       /\ Cardinality(listed) = Min(10, Cardinality(bad))

IntegrityChecked == vpc \in {"coverage", "summary"} \/ (vpc = "done" /\ HasCheck("Accreditation referential integrity"))

\* per integrity check, the rows that reference a target that is not there
Dangling ==
  [acc |-> {a \in db.accreditations :
              \/ \A e \in db.ecs : e.id # a.ecId
              \/ \A c \in db.certifiers : c.id # a.certifierId},
   off |-> {o \in db.offerings :
              \/ \A e \in db.ecs : e.id # o.ecId
              \/ \A c \in db.centers : c.id # o.centerId},
   ecComm |-> {e \in db.ecs :
                 e.committeeId # Null /\ \A c \in db.committees : c.id # e.committeeId},
   ecSec |-> {e \in db.ecs :
                e.sectorId # Null /\ \A x \in db.sectors : x.id # e.sectorId},
   commSec |-> {c \in db.committees :
                  c.sectorId # Null /\ \A x \in db.sectors : x.id # c.sectorId},
   occ |-> {o \in db.occupations : \A e \in db.ecs : e.id # o.ecId}]

IntegrityCheckName ==
  [acc |-> "Accreditation referential integrity",
   off |-> "Center offering referential integrity",
   ecComm |-> "EC->Committee referential integrity",
   ecSec |-> "EC->Sector referential integrity",
   commSec |-> "Committee->Sector referential integrity",
   occ |-> "ECOccupation->EC referential integrity"]

\* the only defect of the store is one Accreditation row whose standard
\* exists and whose certifier does not
OnlyOneLostCertifier ==
  /\ Cardinality(Dangling.acc) = 1
  /\ \A a \in Dangling.acc :
       /\ \E e \in db.ecs : e.id = a.ecId
       /\ \A c \in db.certifiers : c.id # a.certifierId
  /\ \A k \in DOMAIN Dangling \ {"acc"} : Dangling[k] = {}

\* C14: once the integrity section has run, each of the six relations has
\* one check, FAIL when at least one of its rows references a target that
\* does not exist and PASS otherwise; on a store whose only defect is one
\* Accreditation row whose certifier does not exist, the Accreditation check
\* is the one integrity check that is FAIL.
C14_IntegrityStatus ==
  IntegrityChecked =>
    /\ \A k \in DOMAIN Dangling :
         /\ Cardinality(ChecksNamed(IntegrityCheckName[k])) = 1
         /\ StatusOf(IntegrityCheckName[k])
              = IF Dangling[k] # {} THEN "FAIL" ELSE "PASS"
    /\ OnlyOneLostCertifier =>
         {k \in DOMAIN Dangling : StatusOf(IntegrityCheckName[k]) = "FAIL"} = {"acc"}

\* the validator has ended on a store with sound rows in every relation and
\* one Accreditation row whose certifier is gone
C14_Witness ==
  /\ vpc = "done" /\ ~vThrew
  /\ OnlyOneLostCertifier
  /\ Cardinality(db.accreditations) = 2
  /\ db.offerings # {} /\ db.occupations # {}
  /\ \E e \in db.ecs : e.committeeId # Null /\ e.sectorId # Null
  /\ StatusOf("Accreditation referential integrity") = "FAIL"
  /\ vExit = 1

CheckNames ==
  {ModelName[t] \o " count" : t \in Tables}
  \cup {"EC code format"}
  \cup {IntegrityCheckName[k] : k \in DOMAIN IntegrityCheckName}

\* C15: the validator never writes to the store; when it reaches its
\* summary, its results are the nine count checks, the format check and the
\* six integrity checks and nothing else, whatever the descriptive figures
\* are, and its exit status is non-zero exactly when one of them is FAIL.
C15_ExitStatusIsTheGate ==
  /\ vpc # "off" => db = db0
  /\ (vpc = "done" /\ ~vThrew) =>
       /\ Len(results) = 16
       /\ {results[i].check : i \in DOMAIN results} = CheckNames
       /\ vExit # 0 <=> \E i \in DOMAIN results : results[i].status = "FAIL"
       /\ vExit = 0 <=> \A i \in DOMAIN results : results[i].status \in {"PASS", "WARN"}

\* the validator has ended with status 0 although a check is WARN and the
\* figures show standards without links
C15_Witness ==
  /\ vpc = "done" /\ ~vThrew
  /\ vExit = 0
  /\ \E i \in DOMAIN results : results[i].status = "WARN"
  /\ StatusOf("EC code format") = "WARN"
  /\ figures.ecsWithCommitteeId < Cardinality(db.ecs)
  /\ figures.ecsWithOcc = 1 /\ figures.certsWithAcc = 1

\* ───── properties of the steps ─────
StepNames == {StepOrder[i] : i \in DOMAIN StepOrder}

\* the sector keys that parse, and the first record that carries a key
SectorKeys(ecs) ==
  {ParseInt(ecs[i].idSectorProductivo).n :
     i \in {j \in DOMAIN ecs : ~ParseInt(ecs[j].idSectorProductivo).isNaN}}

FirstWithSector(ecs, k) ==
  ecs[CHOOSE i \in DOMAIN ecs :
        /\ ~ParseInt(ecs[i].idSectorProductivo).isNaN
        /\ ParseInt(ecs[i].idSectorProductivo).n = k
        /\ \A j \in 1..(i - 1) :
             \/ ParseInt(ecs[j].idSectorProductivo).isNaN
             \/ ParseInt(ecs[j].idSectorProductivo).n # k]

\* what each step needs is in the store and in the maps when it starts
DependenciesMaterialized ==
  /\ pc \in {"committees", "standards"} =>
       \A k \in SectorKeys(mem.std[1]) :
         /\ k \in DOMAIN sectorLookup
         /\ \E r \in db.sectors : r.sectorId = k /\ r.id = sectorLookup[k]
  /\ pc = "standards" =>
       \A i \in DOMAIN ValidCommittees :
         /\ ValidCommittees[i].clave \in DOMAIN committeeLookup
         /\ \E r \in db.committees :
              /\ r.committeeKey = ValidCommittees[i].clave
              /\ r.id = committeeLookup[r.committeeKey]
  /\ pc \in {"accreditations", "offerings"} =>
       /\ \A i \in DOMAIN mem.std[1] :
            mem.std[1][i].codigo # "" =>
              \E r \in db.ecs : r.ecClave = mem.std[1][i].codigo
       /\ mem.certs # Null =>
            \A i \in DOMAIN mem.certs[1].registry :
              \E r \in db.certifiers : r.certId = mem.certs[1].registry[i].id
       /\ mem.centers # Null =>
            \A i \in DOMAIN mem.centers[1].registry :
              \E r \in db.centers : r.centerId = mem.centers[1].registry[i].id

\* a step hands over to the next one of the list or ends the run, and a
\* table is only written by its own step
StepsFollowTheOrder ==
  /\ pc' # pc =>
       \/ pc \in {"idle", "done"} /\ pc' \in {"idle", "done", "sectors"}
       \/ \E i \in DOMAIN StepOrder :
            /\ pc = StepOrder[i]
            /\ \/ pc' = "done"
               \/ i < Len(StepOrder) /\ pc' = StepOrder[i + 1]
  /\ \A t \in Tables :
       db'[t] # db[t] => (pc \in StepNames /\ t \in WrittenBy[pc])

\* C16: the steps of a run execute in the order Sector, Committee,
\* Standard, Certifier, Center, Accreditation, Offering, Ledger, each table
\* being written by its own step only; when the Committee and Standard
\* steps start the sector map holds every sector key of the extract, when
\* the Standard step starts the committee map holds every committee key,
\* and when the Accreditation and Offering passes start every standard,
\* certifier and center of the extracts is in the store.
C16_StepsInOrder == []DependenciesMaterialized /\ [][StepsFollowTheOrder]_vars

\* the first run over the rich extracts has reached the ledger step after
\* its seven steps
C16_Witness ==
  /\ pc = "ledger" /\ runs = 1
  /\ files = RichFiles
  /\ DOMAIN stats = StatKeys
  /\ \A t \in Tables \ {"syncJobs"} : db[t] # {}

\* the (center, code) pairs of the center registry of this run
RegistryPairs ==
  UNION {{<<i, j>> : j \in DOMAIN mem.centers[1].registry[i].ec_codes} :
           i \in DOMAIN mem.centers[1].registry}

CenterResolves(p) ==
  \E c \in db.centers : c.centerId = mem.centers[1].registry[p[1]].id

StandardResolves(p) ==
  \E e \in db.ecs : e.ecClave = mem.centers[1].registry[p[1]].ec_codes[p[2]]

UnresolvedOfferingPairs ==
  {p \in RegistryPairs : ~CenterResolves(p) \/ ~StandardResolves(p)}

OfferingsAdded == Cardinality(db.offerings) - Cardinality(db0.offerings)

\* C17 (as amended): when the offering pass has returned, every center of
\* the registry resolved, the reported inserted count is the number of
\* Offering rows the pass added, the reported skipped count is the number of
\* pairs whose standard did not resolve plus the number of resolved pairs
\* that added no row (their row was in the store already, or the pair is
\* repeated in the registry), and pairs attempted = inserted + skipped.
C17_OfferingSkippedCountsDuplicates ==
  offerResult # Null =>
    /\ \A p \in RegistryPairs : CenterResolves(p)
    /\ offerResult[1].created = OfferingsAdded
    /\ offerResult[1].skipped
         = Cardinality(UnresolvedOfferingPairs)
           + (Cardinality(RegistryPairs \ UnresolvedOfferingPairs) - OfferingsAdded)
    /\ Cardinality(RegistryPairs) = offerResult[1].created + offerResult[1].skipped

\* the pass has returned over a center that lists a code twice and a code
\* that is not in the store: two rows added, two pairs reported skipped
C17_Witness ==
  /\ offerResult # Null
  /\ Cardinality(RegistryPairs) = 4
  /\ Cardinality(UnresolvedOfferingPairs) = 1
  /\ offerResult[1] = [created |-> 2, skipped |-> 2]

\* C17 (as claimed): the reported skipped count is the number of pairs of
\* which the center or the standard did not resolve.
C17_AsClaimed ==
  offerResult # Null =>
    /\ offerResult[1].created = OfferingsAdded
    /\ offerResult[1].skipped = Cardinality(UnresolvedOfferingPairs)
    /\ Cardinality(RegistryPairs) = offerResult[1].created + offerResult[1].skipped

\* the sector step of this run has returned
SectorsDone == "sectors" \in DOMAIN stats

\* C18 (as amended): when the sector step has returned, the store holds
\* exactly one Sector row per sector key that parses in the standard
\* extract, its name being the name of the first record in source order
\* that has the key, or "Sector <key>" when that record has no name; the
\* map has exactly one entry per such key, the identity of that row; the
\* Sector rows of other keys are as they were, so a record whose key does
\* not parse adds no sector.
C18_OneSectorPerKey ==
  SectorsDone =>
    LET ecs == mem.std[1]
        keys == SectorKeys(ecs)
    IN /\ DOMAIN sectorLookup = keys
       /\ stats.sectors = Cardinality(keys)
       /\ \A k \in keys :
            /\ Cardinality({r \in db.sectors : r.sectorId = k}) = 1
            /\ \A r \in db.sectors :
                 r.sectorId = k =>
                   /\ r.id = sectorLookup[k]
                   /\ r.nombre = IF FirstWithSector(ecs, k).secProductivo # ""
                                 THEN FirstWithSector(ecs, k).secProductivo
                                 ELSE "Sector " \o ToString(k)
       /\ \A r \in db.sectors : r.sectorId \notin keys => r \in db0.sectors

\* the step has returned over an extract in which the first record of key
\* 7 has no name and a later one has
C18_Witness ==
  /\ SectorsDone
  /\ mem.std[1] = <<EcTurismoAgain, EcSinClave>>
  /\ \E r \in db.sectors : r.sectorId = 7 /\ r.nombre = "Sector 7"
  /\ DOMAIN sectorLookup = {7}

\* C18 (as claimed): the name is the name carried by the first record that
\* has the key.
C18_AsClaimed ==
  SectorsDone =>
    \A k \in SectorKeys(mem.std[1]) :
      /\ Cardinality({r \in db.sectors : r.sectorId = k}) = 1
      /\ \A r \in db.sectors :
           r.sectorId = k => r.nombre = FirstWithSector(mem.std[1], k).secProductivo

\* the committee step of this run has returned
CommitteesDone == "committees" \in DOMAIN stats

\* the record of the extract that is upserted last for its key
LastForKey(cs, i) == \A j \in DOMAIN cs : cs[j].clave = cs[i].clave => j <= i

\* C19: when the committee step has returned, every committee record of the
\* extract has its row under its committee key, and the sector link of the
\* row is null when the record (the last one of its key) has no sector key
\* or a sector key that is not in the sector map, and the identity the map
\* gives for the key otherwise; no record makes the step fail.
C19_CommitteeSectorLink ==
  CommitteesDone =>
    /\ stats.committees = Cardinality({ValidCommittees[i].clave : i \in DOMAIN ValidCommittees})
    /\ \A i \in DOMAIN ValidCommittees :
         LET c == ValidCommittees[i]
         IN /\ Cardinality({r \in db.committees : r.committeeKey = c.clave}) = 1
            /\ \A r \in db.committees :
                 (r.committeeKey = c.clave /\ LastForKey(ValidCommittees, i)) =>
                   /\ r.nombre = c.nombre
                   /\ r.sectorId
                        = IF c.idSectorProductivo = Null THEN Null
                          ELSE IF c.idSectorProductivo[1] \notin DOMAIN sectorLookup
                               THEN Null
                               ELSE sectorLookup[c.idSectorProductivo[1]]

\* the step has returned over a batch with a committee without sector key
\* and a committee whose sector key is not in the map, and the run ended
\* with status 0
C19_Witness ==
  /\ CommitteesDone /\ Succeeded
  /\ \E i \in DOMAIN ValidCommittees :
       /\ ValidCommittees[i].idSectorProductivo # Null
       /\ ValidCommittees[i].idSectorProductivo[1] \notin DOMAIN sectorLookup
       /\ \E r \in db.committees :
            r.committeeKey = ValidCommittees[i].clave /\ r.sectorId = Null
  /\ \E i \in DOMAIN ValidCommittees :
       /\ ValidCommittees[i].idSectorProductivo = Null
       /\ LastForKey(ValidCommittees, i)
  /\ Cardinality(db.committees) = 2

\* the standard step of this run has returned
StandardsDone == "ecStandards" \in DOMAIN stats

ExtractCodes == {mem.std[1][i].codigo : i \in DOMAIN mem.std[1]}

\* C20: when the standard step has returned, no Standard row has an empty
\* code, every record of the extract that has a code has its row (with the
\* title of the last record of that code), and the Standard rows of codes
\* that are not in the extract are as they were.
C20_KeylessStandardSkipped ==
  StandardsDone =>
    /\ \A r \in db.ecs : r.ecClave # ""
    /\ \A i \in DOMAIN mem.std[1] :
         LET ec == mem.std[1][i]
         IN ec.codigo # "" =>
              /\ Cardinality({r \in db.ecs : r.ecClave = ec.codigo}) = 1
              /\ (\A j \in DOMAIN mem.std[1] : mem.std[1][j].codigo = ec.codigo => j <= i)
                   => \E r \in db.ecs : r.ecClave = ec.codigo /\ r.titulo = ec.titulo
    /\ \A r \in db.ecs : r.ecClave \notin ExtractCodes => r \in db0.ecs

\* the step has returned over a batch whose first record has no code and
\* whose other records have one
C20_Witness ==
  /\ StandardsDone
  /\ mem.std[1][1].codigo = ""
  /\ Len(mem.std[1]) = 4
  /\ stats.ecStandards = 4
  /\ Cardinality(db.ecs) = 2
  /\ db0.ecs = {}

\* the labels of an occupation list that are left after trimming
TrimmedLabels(occupations) ==
  {Trim(occupations[i]) :
     i \in {j \in DOMAIN occupations :
              occupations[j] # <<>> /\ Trim(occupations[j]) # <<>>}}

\* C21: when the standard step has returned over a detail extract, every
\* standard of the extract that has a detail entry has an Occupation row
\* (standard identity, label) for each label of its list after trimming;
\* the rows the step inserted have a label that is not empty, not blank and
\* without leading or trailing blank, and no pair has a second row.
C21_OccupationsTrimmed ==
  (StandardsDone /\ mem.details # Null) =>
    /\ \A i \in DOMAIN mem.details[1].ec_details :
         LET entry == mem.details[1].ec_details[i]
         IN \A e \in db.ecs :
              (e.ecClave = entry.ecClave /\ e.ecClave \in ExtractCodes) =>
                \A l \in TrimmedLabels(entry.occupations) :
                  \E o \in db.occupations : o.ecId = e.id /\ o.occupation = l
    /\ \A o \in db.occupations \ db0.occupations :
         /\ o.occupation # <<>>
         /\ ~IsSpace(Head(o.occupation))
         /\ ~IsSpace(o.occupation[Len(o.occupation)])
    /\ \A o1, o2 \in db.occupations :
         (o1.ecId = o2.ecId /\ o1.occupation = o2.occupation) => o1 = o2

\* the step has returned over a list holding a label, a blank label and
\* the same label between blanks: one row was inserted for the standard
C21_Witness ==
  /\ StandardsDone /\ mem.details # Null
  /\ mem.details[1].ec_details = DetailsA
  /\ db0.occupations = {}
  /\ \E e \in db.ecs :
       /\ e.ecClave = "EC0249"
       /\ {o.occupation : o \in {x \in db.occupations : x.ecId = e.id}} = {OccGuia}
  /\ Cardinality(db.occupations) = 1

\* the type contains the keyword, whatever the case of its letters
SameLetter(a, b) ==
  \/ a = b
  \/ \E n \in 1..26 : {a, b} = {CharAt(LowerLetters, n), CharAt(UpperLetters, n)}

ContainsIgnoringCase(s, k) ==
  \E i \in 1..(Len(s) - Len(k) + 1) :
    \A j \in 1..Len(k) : SameLetter(CharAt(s, i + j - 1), CharAt(k, j))

RawType(entityType) == IF entityType = Null THEN "" ELSE entityType[1]

\* C22: the classification of every entity type is ECE or OC; it is OC
\* exactly when the type contains OC or GOBIERNO, compared without regard to
\* case, and ECE otherwise: for a missing or empty type and for the values
\* ECE, Unknown, SA de CV and SC.
C22_TipoClassification ==
  \A i \in DOMAIN tipos :
    LET raw == RawType(tipos[i].entityType)
    IN /\ tipos[i].tipo \in {"ECE", "OC"}
       /\ (tipos[i].tipo = "OC")
            <=> (ContainsIgnoringCase(raw, "OC") \/ ContainsIgnoringCase(raw, "GOBIERNO"))
       /\ raw \in {"", "ECE", "Unknown", "SA de CV", "SC"} => tipos[i].tipo = "ECE"

\* a type that holds the keyword in lower case inside a longer text has
\* been classified OC
C22_Witness ==
  /\ tipos # <<>>
  /\ tipos[1].entityType = Some("Sociedad Civil")
  /\ tipos[1].tipo = "OC"

\* the codes a committee record lists
ListedCodes(committee) ==
  {committee.estandaresAsociados[k] : k \in DOMAIN committee.estandaresAsociados}

\* C23: the reverse index is built by the first request of a process and
\* not after: every request returns the index of the first one, which the
\* cache holds; each code of the index maps to the key of a committee of
\* that request whose list contains the code, every code listed by a
\* committee of that request is in the index, and the store is as it was.
C23_IndexBuiltOnce ==
  /\ (cache = Null) <=> (returned = <<>>)
  /\ db = EmptyDb
  /\ returned # <<>> =>
       LET first == returned[1]
       IN /\ cache = Some(first.index)
          /\ \A i \in DOMAIN returned : returned[i].index = first.index
          /\ \A code \in DOMAIN first.index :
               \E j \in DOMAIN first.committees :
                 /\ first.committees[j].clave = first.index[code]
                 /\ code \in ListedCodes(first.committees[j])
          /\ \A j \in DOMAIN first.committees :
               \A code \in ListedCodes(first.committees[j]) \ {""} :
                 code \in DOMAIN first.index

\* a second request, with another committee list, has returned the index
\* built by the first one
C23_Witness ==
  /\ Len(returned) = 2
  /\ returned[1].committees = <<ComiteTurismo, ComiteOtro, ComiteSinSector>>
  /\ returned[2].committees = <<>>
  /\ returned[2].index = [c \in {"EC0249", "EC0001"} |-> "CGC-2"]

\* the codes of a standard extract, and the record upserted last for a code
CodesOf(ecs) == {ecs[i].codigo : i \in DOMAIN ecs} \ {""}

LastRecord(ecs, c) ==
  ecs[CHOOSE i \in DOMAIN ecs :
        /\ ecs[i].codigo = c
        /\ \A j \in DOMAIN ecs : ecs[j].codigo = c => j <= i]

\* the standard step of the run before this one had returned
PrevStandardsDone == prevStd # Null

C24_ChangedRecordReached ==
  /\ StandardsDone /\ PrevStandardsDone
  /\ \E r \in db.ecs, r0 \in db0.ecs :
       /\ r.ecClave = "EC0249" /\ r0.ecClave = "EC0249"
       /\ r.contentHash # r0.contentHash

\* C25: when the standard step has returned, the Standard row of every
\* code of the extract has, when the sector identifier of its record (the
\* last one of the code) parses as an integer, a sector link that is not
\* null and is the identity of the Sector row of that key, and a null sector
\* link when it does not parse; the committee the standard resolved to has
\* no part in it.
C25_StandardSectorLink ==
  StandardsDone =>
    \A c \in CodesOf(mem.std[1]) :
      LET sectorIdInt == ParseInt(LastRecord(mem.std[1], c).idSectorProductivo)
      IN \A r \in db.ecs :
           r.ecClave = c =>
             IF sectorIdInt.isNaN THEN r.sectorId = Null
             ELSE /\ r.sectorId # Null
                  /\ \E sec \in db.sectors :
                       sec.sectorId = sectorIdInt.n /\ sec.id = r.sectorId

\* the step has returned over a standard of sector 7 whose committee has
\* another sector link and a standard whose sector identifier does not parse
C25_Witness ==
  /\ StandardsDone
  /\ \E r \in db.ecs, sec \in db.sectors :
       /\ r.ecClave = "EC0249"
       /\ sec.sectorId = 7 /\ r.sectorId = sec.id
       /\ \E c \in db.committees : c.id = r.committeeId /\ c.sectorId # r.sectorId
  /\ \E r \in db.ecs : r.ecClave = "EC0001" /\ r.sectorId = Null

\* C26: when the standard step has returned in a run that loaded no
\* committee (the extract is missing, unparsable or empty), every Standard
\* row of a code of the standard extract has a null committee link,
\* whatever link it had when the run started, and the Committee rows are as
\* they were when the run started.
C26_NoCommitteesNullsLinks ==
  (StandardsDone /\ Len(ValidCommittees) = 0) =>
    /\ \A r \in db.ecs : r.ecClave \in CodesOf(mem.std[1]) => r.committeeId = Null
    /\ db.committees = db0.committees

\* a run without committee extract has rewritten a standard that an
\* earlier run had linked to a committee, which is still in the store
C26_Witness ==
  /\ StandardsDone /\ pc # "idle"
  /\ Unusable(files.committees)
  /\ \E r \in db.ecs, r0 \in db0.ecs :
       /\ r.ecClave = r0.ecClave
       /\ r0.committeeId # Null
       /\ r.committeeId = Null
       /\ \E c \in db.committees : c.id = r0.committeeId

\* the (standard code, certifier id) pairs of the matrix of this run
MatrixPairs ==
  UNION {{<<mem.matrix[1].matrix[i].ecClave, mem.matrix[1].matrix[i].ece_ids[j]>> :
            j \in DOMAIN mem.matrix[1].matrix[i].ece_ids} :
           i \in DOMAIN mem.matrix[1].matrix}

\* C27: when the committee step has returned, the sector link of a
\* committee is the identity of the Sector row of its sector key when that
\* key occurs in the standard extract of this run, and null otherwise, also
\* when the store holds a Sector row of that key from an earlier run; when
\* the accreditation (offering) pass has returned, every pair of the matrix
\* (registry) whose two sides are in the store has its row, whether the
\* sides were written by this run or by an earlier one.
C27_ResolutionScopes ==
  /\ CommitteesDone =>
       \A i \in DOMAIN ValidCommittees :
         LET c == ValidCommittees[i]
         IN \A r \in db.committees :
              (r.committeeKey = c.clave /\ LastForKey(ValidCommittees, i)) =>
                IF /\ c.idSectorProductivo # Null
                   /\ c.idSectorProductivo[1] \in SectorKeys(mem.std[1])
                THEN \E sec \in db.sectors :
                       sec.sectorId = c.idSectorProductivo[1] /\ sec.id = r.sectorId
                ELSE r.sectorId = Null
  /\ accResult # Null =>
       \A p \in MatrixPairs :
         \A e \in db.ecs, c \in db.certifiers :
           (e.ecClave = p[1] /\ c.certId = p[2]) =>
             \E a \in db.accreditations : a.ecId = e.id /\ a.certifierId = c.id
  /\ offerResult # Null =>
       \A p \in RegistryPairs :
         \A c \in db.centers, e \in db.ecs :
           (/\ c.centerId = mem.centers[1].registry[p[1]].id
            /\ e.ecClave = mem.centers[1].registry[p[1]].ec_codes[p[2]]) =>
             \E o \in db.offerings : o.centerId = c.id /\ o.ecId = e.id

\* a run has stored a committee with a null sector link although the
\* store holds the Sector row of its key, written by an earlier run, and
\* has added the offering of a standard that only an earlier run wrote
C27_Witness ==
  /\ offerResult # Null /\ CommitteesDone
  /\ \E r \in db.committees, sec \in db0.sectors, i \in DOMAIN ValidCommittees :
       /\ r.committeeKey = ValidCommittees[i].clave
       /\ LastForKey(ValidCommittees, i)
       /\ ValidCommittees[i].idSectorProductivo = Some(sec.sectorId)
       /\ r.sectorId = Null
  /\ \E o \in db.offerings \ db0.offerings, e \in db0.ecs :
       /\ o.ecId = e.id
       /\ e.ecClave \notin CodesOf(mem.std[1])

\* the natural keys a step upserts, in the order of its batches
StepKeys(step) ==
  IF step = "sectors"
    THEN [i \in DOMAIN SectorMap(mem.std[1], <<>>) |-> SectorMap(mem.std[1], <<>>)[i].key]
  ELSE IF step = "committees"
    THEN [i \in DOMAIN ValidCommittees |-> ValidCommittees[i].clave]
  ELSE IF step = "standards"
    THEN [i \in DOMAIN mem.std[1] |-> mem.std[1][i].codigo]
  ELSE IF step = "certifiers"
    THEN [i \in DOMAIN mem.certs[1].registry |-> mem.certs[1].registry[i].id]
  ELSE [i \in DOMAIN mem.centers[1].registry |-> mem.centers[1].registry[i].id]

StepTable ==
  [sectors |-> "sectors", committees |-> "committees", standards |-> "ecs",
   certifiers |-> "certifiers", centers |-> "centers"]

StepBatchSize ==
  [sectors |-> SectorBatchSize, committees |-> CommitteeBatchSize,
   standards |-> EcBatchSize, certifiers |-> CertifierBatchSize,
   centers |-> CenterBatchSize]

\* the table of an upsert step holds the first k batches of the step and
\* nothing else of it: every key of those batches has its row, and every
\* row of another key is as it was when the run started
BatchesCommitted(step, k) ==
  LET K == StepKeys(step)
      t == StepTable[step]
      W == {K[i] : i \in {j \in 1..Min(Len(K), k * StepBatchSize[step]) :
                            step # "standards" \/ K[j] # ""}}
  IN /\ \A key \in W : \E r \in db[t] : r[NaturalKey[t]] = key
     /\ \A r \in db[t] : r[NaturalKey[t]] \notin W => r \in db0[t]

\* all the batches of an upsert step
AllBatches(step) == NumBatches(Len(StepKeys(step)), StepBatchSize[step])

\* the steps of this run that returned before the one that threw
ReturnedBefore(step) ==
  {StepOrder[i] : i \in {j \in DOMAIN StepOrder : j < Position(step)}}
    \cap {s \in DOMAIN StepTable :
            \/ s = "sectors" \/ s = "standards"
            \/ s = "committees" /\ Len(ValidCommittees) > 0
            \/ s = "certifiers" /\ mem.certs # Null
            \/ s = "centers" /\ mem.centers # Null}

\* C28: a run in which a batch write failed has ended with status 1 and
\* no new ledger row; the steps that returned before hold all their
\* batches; the table of the step that failed holds a whole number of its
\* batches, fewer than all, and nothing of the batch that failed (the
\* standard step failing in its occupation insert holds all its standards
\* and no new occupation; a join pass, whose pairs fit one batch, holds no
\* new row).
C28_BatchFailure ==
  (Exited /\ threw # "") =>
    /\ exitCode = 1
    /\ db.syncJobs = db0.syncJobs
    /\ \A s \in ReturnedBefore(threw) : BatchesCommitted(s, AllBatches(s))
    /\ threw \in {"sectors", "committees", "certifiers", "centers"} =>
         \E k \in 0..(AllBatches(threw) - 1) : BatchesCommitted(threw, k)
    /\ threw = "standards" =>
         /\ db.occupations = db0.occupations
         /\ \E k \in 0..AllBatches(threw) : BatchesCommitted(threw, k)
    /\ threw = "accreditations" => db.accreditations = db0.accreditations
    /\ threw = "offerings" => db.offerings = db0.offerings

\* the second committee batch failed: the committee of the first batch is
\* in the store with the sectors written before, the committee of the
\* second batch is not, and the run ended with status 1
C28_Witness ==
  /\ Exited /\ threw = "committees" /\ exitCode = 1
  /\ mem.committees = Some(ComitesDosLotes)
  /\ db0 = EmptyDb
  /\ db.sectors # {}
  /\ {r.committeeKey : r \in db.committees} = {"CGC-1"}
  /\ db.ecs = {} /\ db.syncJobs = {}

\* C29: a run that follows a successful run over the same inputs inserts
\* no Accreditation, Offering or Occupation row and reports zero created
\* for both join passes; its ledger row carries the itemsProcessed of the
\* run before minus the accreditation and offering rows that run inserted.
C29_SecondRunInsertsNothing ==
  (Succeeded /\ prevOK) =>
    /\ db.accreditations = db0.accreditations
    /\ db.offerings = db0.offerings
    /\ db.occupations = db0.occupations
    /\ StatOf(stats, "accreditations") = 0
    /\ StatOf(stats, "centerOfferings") = 0
    /\ accResult # Null => accResult[1].created = 0
    /\ offerResult # Null => offerResult[1].created = 0
    /\ Cardinality(db.syncJobs \ db0.syncJobs) = 1
    /\ \A j \in db.syncJobs \ db0.syncJobs :
         j.itemsProcessed = prevCounts.total - prevCounts.accreditations
                                              - prevCounts.centerOfferings

\* a second run after a first one that inserted accreditation, offering
\* and occupation rows: both ledger rows are there and differ
C29_Witness ==
  /\ Succeeded /\ prevOK /\ runs = 2
  /\ prevCounts.accreditations > 0
  /\ prevCounts.centerOfferings > 0
  /\ db.occupations # {}
  /\ accResult # Null /\ accResult[1].skipped > 0
  /\ offerResult # Null
  /\ \E j \in db.syncJobs \ db0.syncJobs : \E i \in db0.syncJobs :
       j.itemsProcessed < i.itemsProcessed

\* the pairs the join passes send to the store in this run
SentAccreditations ==
  IF mem.matrix = Null THEN <<>>
  ELSE AccreditationPairs(mem.matrix[1].matrix, LookupOfTable(db.ecs, "ecClave"),
                          LookupOfTable(db.certifiers, "certId"))

SentOfferings ==
  IF mem.centers = Null THEN <<>>
  ELSE OfferingPairs(mem.centers[1].registry, LookupOfTable(db.ecs, "ecClave"),
                     LookupOfTable(db.centers, "centerId"))

\* C30: during and after a run every Accreditation and Offering row the
\* store held when the run started is still there with the same identity,
\* the same pair and the same flag, a flag set to false included, and
\* every join row the run created carries the flag true.
C30_JoinRowsNeverModified ==
  pc # "idle" =>
    /\ db0.accreditations \subseteq db.accreditations
    /\ db0.offerings \subseteq db.offerings
    /\ \A r \in db.accreditations \ db0.accreditations : r.vigente
    /\ \A r \in db.offerings \ db0.offerings : r.activo

\* a run has ended with status 0 on a store that held an Accreditation
\* and an Offering row marked false, both pairs being in the extracts: the
\* rows are still marked false, and the Offering pass has created another
\* row, marked true
C30_Witness ==
  /\ Succeeded
  /\ \E r \in db0.accreditations :
       /\ ~r.vigente /\ r \in db.accreditations
       /\ \E i \in DOMAIN SentAccreditations :
            /\ SentAccreditations[i].ecId = r.ecId
            /\ SentAccreditations[i].certifierId = r.certifierId
  /\ \E r \in db0.offerings :
       /\ ~r.activo /\ r \in db.offerings
       /\ \E i \in DOMAIN SentOfferings :
            /\ SentOfferings[i].ecId = r.ecId
            /\ SentOfferings[i].centerId = r.centerId
  /\ \E r \in db.offerings \ db0.offerings : r.activo

====
